---------------------------- MODULE Spec2Model ----------------------------
(***************************************************************************)
(* Model of the NullG data-modelling layer: the query validators of        *)
(* NullgModels/ServerModels.py, the field catalog walk of                  *)
(* Utils/introspection.py and the tagged-variant validators of             *)
(* NullgModels/BattletechModels.py and NullgModels/EquipmentModels.py.     *)
(***************************************************************************)
EXTENDS Integers, Sequences, FiniteSets, TLC

VARIABLES
    expr,       \* the query expression handed to the validators
    steps,      \* how many levels the caller has built around the first leaf
    fresult,    \* outcome of validate_filter(expr), NotRun before the call
    presult,    \* outcome of validate_pipeline(expr), NotRun before the call
    schemas,    \* the schema graph: model name -> its field declarations, in order
    call,       \* the arguments of the walk_model_fields call
    catalog,    \* what walk_model_fields returned or raised, NotWalked before
    raw,        \* the raw record handed to the decoder, NoRecord before it arrives
    decoded,    \* the typed record or the validation error, NotDecoded before
    log,        \* the earlier decode calls of the process: record and outcome
    results,    \* the ServerResponseItem handed to _parse_items, NoResults before
    parsed,     \* what _parse_items returned or raised, NotParsed before
    itemClass,  \* what a call of _get_item_class returned or raised, NotLooked before
    request,    \* the last call made on a filter object: the constructor's or the
                \* assignment's arguments, NoRequest before
    object,     \* the SearchFilter / PipelineFilter / MongoQuery the caller holds, or
                \* the ValidationError its constructor raised, NoObject before
    security,   \* outcome of object.validate_security(), NotRun before the call
    sent        \* the json_data a search_* method handed to _make_rest_call, NotSent before

queryVars == <<expr, steps, fresult, presult>>
catalogVars == <<schemas, call, catalog>>
decodeVars == <<raw, decoded, log>>
connectorVars == <<results, parsed, itemClass>>
objectVars == <<request, object, security, sent>>
vars == <<queryVars, catalogVars, decodeVars, connectorVars, objectVars>>

(***************************************************************************)
(* Python values.  A str is kept as its first character and the rest, so   *)
(* that str.startswith("$") is a test on the first character.  A mapping   *)
(* key or scalar that is an int carries kt = "int" and its digits.           *)
(***************************************************************************)
Str(lead, rest) == [kt |-> "str", lead |-> lead, rest |-> rest]
PyInt(digits) == [kt |-> "int", lead |-> "", rest |-> digits]
NoKey == [kt |-> "none", lead |-> "", rest |-> ""]

\* An expression tree: a scalar, a dict (its items in insertion order, each a
\* <<key, value>> pair) or a list.
Scalar(s) == [t |-> "scalar", s |-> s, items |-> <<>>]
DictOf(items) == [t |-> "dict", s |-> NoKey, items |-> items]
ListOf(items) == [t |-> "list", s |-> NoKey, items |-> items]

\* src/NullgModels/ServerModels.py:12-16
ALLOWED_OPERATORS ==
    { Str("$", "eq"), Str("$", "ne"), Str("$", "gt"), Str("$", "gte"),
      Str("$", "lt"), Str("$", "lte"), Str("$", "in"), Str("$", "nin"),
      Str("$", "regex"), Str("$", "exists"), Str("$", "and"), Str("$", "or"),
      Str("$", "nor"), Str("$", "not") }

\* the deny-list with '$out' forgotten
DisallowedOnlyMerge == { Str("$", "merge") }

\* src/NullgModels/ServerModels.py:18-20
DISALLOWED_OPERATORS == { Str("$", "merge"), Str("$", "out") }

(***************************************************************************)
(* Outcomes of a validator call.                                           *)
(***************************************************************************)
NotRun == [kind |-> "notrun", msg |-> "", key |-> NoKey]
Accept == [kind |-> "accept", msg |-> "", key |-> NoKey]
\* raise ValueError(f"Operator '{key}' is not allowed.")
FilterError(key) == [kind |-> "ValueError", msg |-> "Operator", key |-> key]
\* raise ValueError(f"Aggregate Operator '{key}' is not allowed.")
PipelineError(key) == [kind |-> "ValueError", msg |-> "Aggregate Operator", key |-> key]
\* key.startswith on a key that is no str: 'int' object has no attribute 'startswith'
AttributeError == [kind |-> "AttributeError", msg |-> "startswith", key |-> NoKey]

\* str.startswith("$")
StartsWithDollar(key) == key.lead = "$"

\* the recursion test written as isinstance(value, dict)
IsDictOnly(value) == value.t = "dict"

\* isinstance(value, (dict, list))
IsDictOrList(value) == value.t \in {"dict", "list"}

\* the allow-list test without key.startswith("$")
FilterKeyRejectedNoSigil(key) == key \notin ALLOWED_OPERATORS

\* the test of ServerModels.py:44
FilterKeyRejected(key) == StartsWithDollar(key) /\ key \notin ALLOWED_OPERATORS

\* the pipeline test written with the filter's allow-list policy
PipelineKeyRejectedAllowList(key) ==
    StartsWithDollar(key) /\ key \notin ALLOWED_OPERATORS

\* the test of ServerModels.py:74
PipelineKeyRejected(key) == StartsWithDollar(key) /\ key \in DISALLOWED_OPERATORS

\* a validator that also treats a '$'-prefixed string value as an operator
ScalarInspected(value) ==
    IF value.s.lead = "$" THEN [kind |-> "ValueError", msg |-> "Operator", key |-> value.s]
    ELSE [kind |-> "accept", msg |-> "", key |-> NoKey]

\* "Scalars (str, int, etc.) are safe": neither branch of the isinstance chain
\* is taken and the function returns
ScalarOutcome(value) == Accept

RECURSIVE validate_filter(_), FilterDictLoop(_, _), FilterListLoop(_, _)

\* a loop that tests every key of the mapping before it enters any subtree
FilterDictLoopKeysFirst(items, i) ==
    LET bad == {j \in i..Len(items) :
                    items[j][1].kt = "str" /\ FilterKeyRejected(items[j][1])}
        sub == {j \in i..Len(items) :
                    IsDictOrList(items[j][2]) /\ validate_filter(items[j][2]).kind # "accept"}
    IN  IF \E j \in i..Len(items) : items[j][1].kt # "str" THEN AttributeError
        ELSE IF bad # {}
        THEN FilterError(items[CHOOSE j \in bad : \A k \in bad : j <= k][1])
        ELSE IF sub # {}
        THEN validate_filter(items[CHOOSE j \in sub : \A k \in sub : j <= k][2])
        ELSE Accept

\* for key, value in filter_dict.items(): ... (from the i-th item on)
FilterDictLoop(items, i) ==
    IF i > Len(items) THEN Accept
    ELSE LET key == items[i][1]
             value == items[i][2]
         IN  IF key.kt # "str" THEN AttributeError
             ELSE IF FilterKeyRejected(key) THEN FilterError(key)
             ELSE LET r == IF IsDictOrList(value) THEN validate_filter(value) ELSE Accept
                  IN  IF r.kind # "accept" THEN r ELSE FilterDictLoop(items, i + 1)

\* for item in filter_dict: validate_filter(item)
FilterListLoop(items, i) ==
    IF i > Len(items) THEN Accept
    ELSE LET r == validate_filter(items[i])
         IN  IF r.kind # "accept" THEN r ELSE FilterListLoop(items, i + 1)

validate_filter(filter_dict) ==
    IF filter_dict.t = "dict" THEN FilterDictLoop(filter_dict.items, 1)
    ELSE IF filter_dict.t = "list" THEN FilterListLoop(filter_dict.items, 1)
    ELSE ScalarOutcome(filter_dict)

RECURSIVE validate_pipeline(_), PipelineDictLoop(_, _), PipelineListLoop(_, _)

PipelineDictLoop(items, i) ==
    IF i > Len(items) THEN Accept
    ELSE LET key == items[i][1]
             value == items[i][2]
         IN  IF key.kt # "str" THEN AttributeError
             ELSE IF PipelineKeyRejected(key) THEN PipelineError(key)
             ELSE LET r == IF IsDictOrList(value) THEN validate_pipeline(value) ELSE Accept
                  IN  IF r.kind # "accept" THEN r ELSE PipelineDictLoop(items, i + 1)

PipelineListLoop(items, i) ==
    IF i > Len(items) THEN Accept
    ELSE LET r == validate_pipeline(items[i])
         IN  IF r.kind # "accept" THEN r ELSE PipelineListLoop(items, i + 1)

validate_pipeline(pipeline_list) ==
    IF pipeline_list.t = "dict" THEN PipelineDictLoop(pipeline_list.items, 1)
    ELSE IF pipeline_list.t = "list" THEN PipelineListLoop(pipeline_list.items, 1)
    ELSE ScalarOutcome(pipeline_list)

(***************************************************************************)
(* NullgModels/ChatGPTModels.py: its own allow-list and validate_filter.   *)
(***************************************************************************)
\* the allow-list with '$options' added
ChatGPT_AllowedWithOptions ==
    { Str("$", "eq"), Str("$", "ne"), Str("$", "gt"), Str("$", "gte"),
      Str("$", "lt"), Str("$", "lte"), Str("$", "in"), Str("$", "nin"),
      Str("$", "regex"), Str("$", "exists"), Str("$", "and"), Str("$", "or"),
      Str("$", "nor"), Str("$", "not"), Str("$", "options") }

\* src/NullgModels/ChatGPTModels.py:7-11
ChatGPT_ALLOWED_OPERATORS ==
    { Str("$", "eq"), Str("$", "ne"), Str("$", "gt"), Str("$", "gte"),
      Str("$", "lt"), Str("$", "lte"), Str("$", "in"), Str("$", "nin"),
      Str("$", "regex"), Str("$", "exists"), Str("$", "and"), Str("$", "or"),
      Str("$", "nor"), Str("$", "not") }

RECURSIVE ChatGPT_validate_filter(_), ChatGPT_DictLoop(_, _), ChatGPT_ListLoop(_, _)

\* ChatGPTModels.py:19-26
ChatGPT_DictLoop(items, i) ==
    IF i > Len(items) THEN Accept
    ELSE LET key == items[i][1]
             value == items[i][2]
         IN  IF key.kt # "str" THEN AttributeError
             ELSE IF key.lead = "$" /\ key \notin ChatGPT_ALLOWED_OPERATORS
             THEN FilterError(key)
             ELSE LET r == IF value.t \in {"dict", "list"}
                           THEN ChatGPT_validate_filter(value) ELSE Accept
                  IN  IF r.kind # "accept" THEN r ELSE ChatGPT_DictLoop(items, i + 1)

\* ChatGPTModels.py:27-29
ChatGPT_ListLoop(items, i) ==
    IF i > Len(items) THEN Accept
    ELSE LET r == ChatGPT_validate_filter(items[i])
         IN  IF r.kind # "accept" THEN r ELSE ChatGPT_ListLoop(items, i + 1)

\* ChatGPTModels.py:16-30
ChatGPT_validate_filter(filter_dict) ==
    IF filter_dict.t = "dict" THEN ChatGPT_DictLoop(filter_dict.items, 1)
    ELSE IF filter_dict.t = "list" THEN ChatGPT_ListLoop(filter_dict.items, 1)
    ELSE Accept

(***************************************************************************)
(* The filter objects: SearchFilter and PipelineFilter of ServerModels.py  *)
(* and MongoQuery of ChatGPTModels.py.  A constructor validates each       *)
(* supplied argument against the declared type of its field, after the     *)
(* field's mode='before' validator; an argument left out takes the         *)
(* declared default as it is.                                              *)
(***************************************************************************)
\* values a query field can hold besides a dict, a list or a scalar: None,
\* the class object dict, and the marker of an argument that was left out
NoneValue == [t |-> "None", s |-> NoKey, items |-> <<>>]
ClassDict == [t |-> "type", s |-> Str("d", "ict"), items |-> <<>>]
Missing == [t |-> "missing", s |-> NoKey, items |-> <<>>]

\* values of page and itemsPerPage: an int, None, or the argument left out
IntArg(n) == [py |-> "int", n |-> n]
NoneArg == [py |-> "None", n |-> 0]
NoArg == [py |-> "missing", n |-> 0]

\* a paging field: Field(default=..., ge=..., le=...) and the bounds
\* max(min(v, hi), lo) of its mode='before' validator
Paging(default, ge, le, lo, hi) ==
    [default |-> default, ge |-> ge, le |-> le, lo |-> lo, hi |-> hi]

\* the query field of each class (its name, its declared default, whether its
\* type is a list of mappings, whether the keys are declared str) and the
\* paging fields
FilterClasses ==
    [ SearchFilter |->
        [ field |-> "filter", default |-> ClassDict, isList |-> FALSE, strKeys |-> FALSE,
          paged |-> TRUE,
          page |-> Paging(1, 1, 1000, 1, 1000),
          itemsPerPage |-> Paging(50, 10, 100, 1, 100) ],
      PipelineFilter |->
        [ field |-> "pipeline", default |-> NoneValue, isList |-> TRUE, strKeys |-> TRUE,
          paged |-> TRUE,
          page |-> Paging(1, 1, 1000, 1, 100),
          itemsPerPage |-> Paging(50, 1, 100, 1, 100) ],
      MongoQuery |->
        [ field |-> "filter", default |-> DictOf(<<>>), isList |-> FALSE, strKeys |-> TRUE,
          paged |-> FALSE,
          page |-> Paging(0, 0, 0, 0, 0),
          itemsPerPage |-> Paging(0, 0, 0, 0, 0) ] ]

\* max(min(v, hi), lo)
Clamp(v, lo, hi) ==
    LET least == IF v < hi THEN v ELSE hi
    IN  IF least > lo THEN least ELSE lo

\* validate_items_per_page / validate_page:
\* return max(min(v, hi), lo) if v is not None else v
validate_page(paging, v) ==
    IF v.py # "None" THEN IntArg(Clamp(v.n, paging.lo, paging.hi)) ELSE v

\* a paging field of the constructor: the default when the argument is left
\* out, else the 'before' validator and then Optional[int] with ge and le
ValidatePaging(paging, v) ==
    IF v.py = "missing" THEN [ok |-> TRUE, value |-> IntArg(paging.default)]
    ELSE LET w == validate_page(paging, v)
         IN  IF w.py = "None" THEN [ok |-> TRUE, value |-> w]
             ELSE IF w.n >= paging.ge /\ w.n <= paging.le THEN [ok |-> TRUE, value |-> w]
             ELSE [ok |-> FALSE, value |-> w]

\* Dict / Dict[str, Any]: a mapping, its keys str where the type says so
IsMapping(strKeys, value) ==
    /\ value.t = "dict"
    /\ strKeys => \A i \in 1..Len(value.items) : value.items[i][1].kt = "str"

\* a query field that also runs the operator check on the value it is given
ValidateQuerySecured(cls, value) ==
    LET c == FilterClasses[cls]
        typed == IF c.isList
                 THEN value.t = "list"
                      /\ \A i \in 1..Len(value.items) : IsMapping(c.strKeys, value.items[i])
                 ELSE IsMapping(c.strKeys, value)
        checked == IF c.isList THEN validate_pipeline(value) ELSE validate_filter(value)
    IN  IF value.t = "missing" THEN [ok |-> TRUE, value |-> c.default]
        ELSE [ok |-> typed /\ checked.kind = "accept", value |-> value]

\* the query field of the constructor: filter: Dict, pipeline:
\* List[Dict[str, Any]], filter: Dict[str, Any]; no validator is attached
ValidateQuery(cls, value) ==
    LET c == FilterClasses[cls]
    IN  IF value.t = "missing" THEN [ok |-> TRUE, value |-> c.default]
        ELSE IF c.isList
        THEN [ok |-> /\ value.t = "list"
                     /\ \A i \in 1..Len(value.items) : IsMapping(c.strKeys, value.items[i]),
              value |-> value]
        ELSE [ok |-> IsMapping(c.strKeys, value), value |-> value]

NoObject ==
    [cls |-> "", query |-> Missing, page |-> NoArg, itemsPerPage |-> NoArg, error |-> ""]
ValidationError(cls) ==
    [cls |-> cls, query |-> Missing, page |-> NoArg, itemsPerPage |-> NoArg,
     error |-> "ValidationError"]

\* SearchFilter(filter=..., page=..., itemsPerPage=...), PipelineFilter(...),
\* MongoQuery(filter=...): extra arguments are ignored
FilterObject(cls, query, page, itemsPerPage) ==
    LET c == FilterClasses[cls]
        q == ValidateQuery(cls, query)
        p == IF c.paged THEN ValidatePaging(c.page, page) ELSE [ok |-> TRUE, value |-> NoArg]
        n == IF c.paged THEN ValidatePaging(c.itemsPerPage, itemsPerPage)
             ELSE [ok |-> TRUE, value |-> NoArg]
    IN  IF q.ok /\ p.ok /\ n.ok
        THEN [cls |-> cls, query |-> q.value, page |-> p.value, itemsPerPage |-> n.value,
              error |-> ""]
        ELSE ValidationError(cls)

\* obj.filter = value / obj.pipeline = value: model_config sets no
\* validate_assignment, the value is stored as it is
SetQuery(o, value) == [o EXCEPT !.query = value]

\* validate_security of the three classes
validate_security(o) ==
    IF o.cls = "SearchFilter" THEN validate_filter(o.query)
    ELSE IF o.cls = "PipelineFilter" THEN validate_pipeline(o.query)
    ELSE ChatGPT_validate_filter(o.query)

\* model_dump(): the fields of the object as a dict
NotSent == [kind |-> "notsent", query |-> Missing, page |-> NoArg, itemsPerPage |-> NoArg]
model_dump(o) ==
    [kind |-> "dict", query |-> o.query, page |-> o.page, itemsPerPage |-> o.itemsPerPage]

NoRequest ==
    [op |-> "", cls |-> "", query |-> Missing, page |-> NoArg, itemsPerPage |-> NoArg]

(***************************************************************************)
(* Type annotations of field declarations, as typing.get_origin and        *)
(* typing.get_args see them.                                               *)
(***************************************************************************)
Ann(k, name, args) == [k |-> k, name |-> name, args |-> args]
IntT == Ann("class", "int", <<>>)
FloatT == Ann("class", "float", <<>>)
StrT == Ann("class", "str", <<>>)
BoolT == Ann("class", "bool", <<>>)
NoneT == Ann("class", "NoneType", <<>>)
BuiltinDictT == Ann("class", "dict", <<>>)
AnyT == Ann("Any", "Any", <<>>)
EnumT(name) == Ann("class", name, <<>>)
ModelT(name) == Ann("model", name, <<>>)
\* typing.List (args empty) and typing.List[T]
ListT(args) == Ann("List", "List", args)
\* typing.Dict (args empty) and typing.Dict[K, V]
DictT(args) == Ann("Dict", "Dict", args)
\* typing.Union[...]; Optional[T] is Union[T, None] and a Union inside is flattened
UnionT(args) ==
    Ann("Union", IF Len(args) = 2 /\ args[2] = NoneT THEN "Optional" ELSE "Union", args)
OptionalT(t) == IF t.k = "Union" THEN UnionT(t.args \o <<NoneT>>) ELSE UnionT(<<t, NoneT>>)
\* the str object "any" that get_type_name passes to itself for a bare List
StrObj(text) == Ann("strobj", text, <<>>)

get_args(t) == IF t.k \in {"List", "Dict", "Union"} THEN t.args ELSE <<>>
get_origin(t) ==
    IF t.k = "List" THEN "list" ELSE IF t.k = "Dict" THEN "dict"
    ELSE IF t.k = "Union" THEN "Union" ELSE "None"
InArgs(c, t) == \E i \in 1..Len(get_args(t)) : get_args(t)[i] = c

\* hasattr(arg, "model_fields")
HasModelFields(t) == t.k = "model"

\* what get_type_name returns when dict_arg[0] raises IndexError
IndexErrorRaised == "<IndexError>"

\* dict_arg[0] on the empty tuple of a bare Dict
DictArgsMissing(dict_arg) == Len(dict_arg) = 0

RECURSIVE get_type_name(_)
get_type_name(py_type) ==
    LET args == get_args(py_type)
        t == IF Len(args) > 0 THEN args[1] ELSE py_type
    IN  IF get_origin(t) = "list"
        THEN LET arg == IF Len(get_args(t)) > 0 THEN get_args(t)[1] ELSE StrObj("any")
                 inner == get_type_name(arg)
             IN  IF inner = IndexErrorRaised THEN IndexErrorRaised
                 ELSE "array[" \o inner \o "]"
        ELSE IF get_origin(t) = "dict"
        THEN LET dict_arg == get_args(t)
             IN  IF DictArgsMissing(dict_arg) THEN IndexErrorRaised
                 ELSE LET first_arg == get_type_name(dict_arg[1])
                          second_arg == get_type_name(dict_arg[2])
                      IN  IF IndexErrorRaised \in {first_arg, second_arg}
                          THEN IndexErrorRaised
                          ELSE "dict[" \o first_arg \o ", " \o second_arg \o "]"
        ELSE IF t = StrT \/ InArgs(StrT, t) THEN "string"
        ELSE IF t = IntT \/ InArgs(IntT, t) THEN "integer"
        ELSE IF t = FloatT \/ InArgs(FloatT, t) THEN "float"
        ELSE IF t = BoolT \/ InArgs(BoolT, t) THEN "boolean"
        ELSE IF t = AnyT THEN "any"
        ELSE t.name

(***************************************************************************)
(* Optional values of a FieldMetadata entry.                               *)
(***************************************************************************)
NoneStr == [some |-> FALSE, v |-> ""]
SomeStr(text) == [some |-> TRUE, v |-> text]
NoneOps == [some |-> FALSE, v |-> <<>>]
SomeOps(ops) == [some |-> TRUE, v |-> ops]

\* src/Utils/introspection.py:7-15
DEFAULT_OPERATORS ==
    [ tn \in {"integer", "float", "string", "array[string]", "array[integer]",
              "boolean", "dict[string, any]"} |->
        CASE tn = "integer" -> <<"$eq", "$gte", "$lte">>
          [] tn = "float" -> <<"$eq", "$gte", "$lte">>
          [] tn = "string" -> <<"$eq", "$regex">>
          [] tn = "array[string]" -> <<"$in", "$regex">>
          [] tn = "array[integer]" -> <<"$in">>
          [] tn = "boolean" -> <<"$eq">>
          [] tn = "dict[string, any]" -> <<"$eq", "$regex", "$gt", "$gte", "$lt", "$lte">> ]

\* DEFAULT_OPERATORS.get(field_type, ["$eq"])
OperatorsForOrEq(field_type) ==
    IF field_type \in DOMAIN DEFAULT_OPERATORS
    THEN SomeOps(DEFAULT_OPERATORS[field_type]) ELSE SomeOps(<<"$eq">>)

\* DEFAULT_OPERATORS.get(field_type)
OperatorsFor(field_type) ==
    IF field_type \in DOMAIN DEFAULT_OPERATORS
    THEN SomeOps(DEFAULT_OPERATORS[field_type]) ELSE NoneOps

\* a field declaration: name: annotation = Field(description=..., examples=[...]);
\* an example is a Python value, kept as its type and its str() text
FieldDecl(name, annotation, description, examples) ==
    [name |-> name, annotation |-> annotation, description |-> description,
     examples |-> examples]
Example(py, text) == [py |-> py, text |-> text]

FieldMetadata(name, type, description, operators, example, category) ==
    [name |-> name, type |-> type, description |-> description,
     operators |-> operators, example |-> example, category |-> category]

\* field.description or "No description"
Desc(field) == IF field.description = "" THEN "No description" ELSE field.description

\* str(examples[0]) if examples else None
FirstExample(field) ==
    IF Len(field.examples) > 0 THEN SomeStr(field.examples[1].text) ELSE NoneStr

\* the category taken from the enclosing field instead of the one passed down
CurrentCategoryFromParent(prefix, category, name) ==
    IF Len(prefix) > 0 THEN prefix[Len(prefix)] ELSE name

\* category or prefix.split(".")[0] if prefix else name; a dotted path is kept
\* as the sequence of its segments
CurrentCategory(prefix, category, name) ==
    IF Len(prefix) > 0
    THEN (IF category.some /\ category.v # "" THEN category.v ELSE prefix[1])
    ELSE name

Catalog(fields) == [kind |-> "catalog", fields |-> fields]
IndexError == [kind |-> "IndexError", fields |-> <<>>]
NotWalked == [kind |-> "notwalked", fields |-> <<>>]

\* the dedup loop left out: every raw entry is returned
KeepAll(raw_fields) == raw_fields

\* a dedup that keeps the last entry of each name
RECURSIVE DedupLastFrom(_, _, _)
DedupLastFrom(raw_fields, i, fields) ==
    IF i > Len(raw_fields) THEN fields
    ELSE IF \E j \in (i + 1)..Len(raw_fields) : raw_fields[j].name = raw_fields[i].name
         THEN DedupLastFrom(raw_fields, i + 1, fields)
         ELSE DedupLastFrom(raw_fields, i + 1, Append(fields, raw_fields[i]))
DedupLast(raw_fields) == DedupLastFrom(raw_fields, 1, <<>>)

\* "Dedup fields from the TotalWar models": the first entry of each name is kept
RECURSIVE DedupFrom(_, _, _)
DedupFrom(raw_fields, i, fields) ==
    IF i > Len(raw_fields) THEN fields
    ELSE IF \E j \in 1..Len(fields) : fields[j].name = raw_fields[i].name
         THEN DedupFrom(raw_fields, i + 1, fields)
         ELSE DedupFrom(raw_fields, i + 1, Append(fields, raw_fields[i]))

Dedup(raw_fields) == DedupFrom(raw_fields, 1, <<>>)

RECURSIVE WalkFields(_, _, _, _, _), WalkArgs(_, _, _, _, _, _), WalkModel(_, _, _, _)

\* a walk that extends the prefix of a union branch with the branch's name
RECURSIVE WalkArgsBranchNamed(_, _, _, _, _, _)
WalkArgsBranchNamed(g, field_args, j, entry, field_name, current_category) ==
    IF j > Len(field_args) THEN Catalog(<<>>)
    ELSE LET arg == field_args[j]
             here ==
                IF arg = NoneT THEN Catalog(<<>>)
                ELSE IF HasModelFields(arg)
                THEN WalkModel(g, arg.name,
                               IF Len(field_args) > 2 THEN field_name \o <<arg.name>>
                               ELSE field_name,
                               SomeStr(current_category))
                ELSE IF get_origin(arg) = "list"
                THEN LET args == get_args(arg)
                     IN  IF Len(args) > 0 /\ HasModelFields(args[1])
                         THEN WalkModel(g, args[1].name, field_name, SomeStr(current_category))
                         ELSE Catalog(<<entry>>)
                ELSE Catalog(<<entry>>)
             rest == WalkArgsBranchNamed(g, field_args, j + 1, entry, field_name,
                                         current_category)
         IN  IF here.kind # "catalog" THEN here
             ELSE IF rest.kind # "catalog" THEN rest
             ELSE Catalog(here.fields \o rest.fields)

\* a walk that lists a sequence of a nested schema as an entry of its own
\* before the fields of the element schema
RECURSIVE WalkArgsListsSequence(_, _, _, _, _, _)
WalkArgsListsSequence(g, field_args, j, entry, field_name, current_category) ==
    IF j > Len(field_args) THEN Catalog(<<>>)
    ELSE LET arg == field_args[j]
             here ==
                IF arg = NoneT THEN Catalog(<<>>)
                ELSE IF HasModelFields(arg)
                THEN WalkModel(g, arg.name, field_name, SomeStr(current_category))
                ELSE IF get_origin(arg) = "list"
                THEN LET args == get_args(arg)
                         below == WalkModel(g, args[1].name, field_name,
                                            SomeStr(current_category))
                     IN  IF Len(args) > 0 /\ HasModelFields(args[1])
                         THEN (IF below.kind # "catalog" THEN below
                               ELSE Catalog(<<entry>> \o below.fields))
                         ELSE Catalog(<<entry>>)
                ELSE Catalog(<<entry>>)
             rest == WalkArgsListsSequence(g, field_args, j + 1, entry, field_name,
                                           current_category)
         IN  IF here.kind # "catalog" THEN here
             ELSE IF rest.kind # "catalog" THEN rest
             ELSE Catalog(here.fields \o rest.fields)

\* for arg in field_args: ... (from the j-th argument on); the raw entries the
\* field adds, or IndexError
WalkArgs(g, field_args, j, entry, field_name, current_category) ==
    IF j > Len(field_args) THEN Catalog(<<>>)
    ELSE LET arg == field_args[j]
             here ==
                IF arg = NoneT THEN Catalog(<<>>)
                ELSE IF HasModelFields(arg)
                THEN WalkModel(g, arg.name, field_name, SomeStr(current_category))
                ELSE IF get_origin(arg) = "list"
                THEN LET args == get_args(arg)
                     IN  IF Len(args) > 0 /\ HasModelFields(args[1])
                         THEN WalkModel(g, args[1].name, field_name, SomeStr(current_category))
                         ELSE Catalog(<<entry>>)
                ELSE Catalog(<<entry>>)
             rest == WalkArgs(g, field_args, j + 1, entry, field_name, current_category)
         IN  IF here.kind # "catalog" THEN here
             ELSE IF rest.kind # "catalog" THEN rest
             ELSE Catalog(here.fields \o rest.fields)

\* for name, field in model.model_fields.items(): ... (from the i-th field on)
WalkFields(g, fields, i, prefix, category) ==
    IF i > Len(fields) THEN Catalog(<<>>)
    ELSE LET field == fields[i]
             field_name == prefix \o <<field.name>>
             field_type == get_type_name(field.annotation)
             current_category == CurrentCategory(prefix, category, field.name)
             field_args == IF Len(get_args(field.annotation)) = 0
                           THEN <<field.annotation>> ELSE get_args(field.annotation)
             entry == FieldMetadata(field_name, field_type, Desc(field),
                                     OperatorsFor(field_type), FirstExample(field),
                                     SomeStr(current_category))
         IN  IF field_type = IndexErrorRaised THEN IndexError
             ELSE LET here == WalkArgs(g, field_args, 1, entry, field_name, current_category)
                  IN  IF here.kind # "catalog" THEN here
                      ELSE LET rest == WalkFields(g, fields, i + 1, prefix, category)
                           IN  IF rest.kind # "catalog" THEN rest
                               ELSE Catalog(here.fields \o rest.fields)

WalkModel(g, model, prefix, category) ==
    LET walked == WalkFields(g, g[model], 1, prefix, category)
    IN  IF walked.kind # "catalog" THEN walked ELSE Catalog(Dedup(walked.fields))

\* walk_model_fields(model, prefix, category) on the schema graph of the state
walk_model_fields(model, prefix, category) == WalkModel(schemas, model, prefix, category)

(***************************************************************************)
(* Tagged-variant decoding: UnitData, UnitDataExtended and EquipmentItem.  *)
(* A record is validated field by field in declaration order; the          *)
(* discriminator field is declared before the variant field, whose         *)
(* mode='before' validator reads the fields validated so far (info.data).  *)
(***************************************************************************)
\* raw JSON-shaped values: an absent key, null, an int, a float, a string, or
\* a mapping holding a "mass" entry (itself absent or a scalar) and, under
\* tag, an entry of its own with the name of a discriminator
RawAbsent == [j |-> "absent", text |-> "", mass |-> <<>>, tag |-> <<>>]
RawNull == [j |-> "null", text |-> "", mass |-> <<>>, tag |-> <<>>]
RawInt(text) == [j |-> "int", text |-> text, mass |-> <<>>, tag |-> <<>>]
RawFloat(text) == [j |-> "float", text |-> text, mass |-> <<>>, tag |-> <<>>]
RawStr(text) == [j |-> "str", text |-> text, mass |-> <<>>, tag |-> <<>>]
RawTaggedMapping(massValue, tagValue) ==
    [j |-> "dict", text |-> "", mass |-> <<massValue>>, tag |-> <<tagValue>>]
RawMapping(massValue) == RawTaggedMapping(massValue, RawAbsent)

\* typed values
PyNone == [py |-> "None", v |-> ""]
PyFloat(text) == [py |-> "float", v |-> text]
Member(enum, name) == [py |-> enum, v |-> name]

\* src/NullgModels/NullGEnums.py:227-231 and :123-137
EnumValues ==
    [ UnitType |-> [aerospace |-> "0", dropship |-> "1", mech |-> "2",
                    infantry |-> "3", vehicle |-> "4"],
      EquipmentType |-> [armor |-> "0", weapon |-> "1", ammo |-> "2", engine |-> "3",
                         gyro |-> "4", structure |-> "5", cockpit |-> "6", other |-> "7",
                         myomer |-> "8", manipulator |-> "9", heatsink |-> "10",
                         conversion |-> "11", enhancement |-> "12", bay |-> "13",
                         weaponbay |-> "14"] ]

\* UnitType(value) / EquipmentType(value): the member with that value, if any
IsEnumValue(enum, text) == \E m \in DOMAIN EnumValues[enum] : EnumValues[enum][m] = text
EnumMember(enum, text) ==
    Member(enum, CHOOSE m \in DOMAIN EnumValues[enum] : EnumValues[enum][m] = text)

\* isinstance(x, int): true of an IntEnum member, false of None
IsInstanceInt(x) == x.py \in DOMAIN EnumValues

\* unitTypesMap of UnitData with the mech and vehicle branches swapped
UnitTypesMapSwapped ==
    [ mech |-> "TotalWarVehicleData", vehicle |-> "TotalWarBattleMechData",
      infantry |-> "TotalWarInfantryData", aerospace |-> "TotalWarAerospaceData",
      dropship |-> "TotalWarDropshipData" ]

\* unitTypesMap of UnitData with the infantry branch left out
UnitTypesMapNoInfantry ==
    [ mech |-> "TotalWarBattleMechData", vehicle |-> "TotalWarVehicleData",
      aerospace |-> "TotalWarAerospaceData", dropship |-> "TotalWarDropshipData" ]

\* src/NullgModels/BattletechModels.py:281-287
UnitTypesMap ==
    [ mech |-> "TotalWarBattleMechData", vehicle |-> "TotalWarVehicleData",
      infantry |-> "TotalWarInfantryData", aerospace |-> "TotalWarAerospaceData",
      dropship |-> "TotalWarDropshipData" ]

\* src/NullgModels/BattletechModels.py:341-347
UnitTypesMapExtended ==
    [ mech |-> "TotalWarBattleMechExtendedData", vehicle |-> "TotalWarVehicleExtendedData",
      infantry |-> "TotalWarInfantryExtendedData",
      aerospace |-> "TotalWarAerospaceExtendedData",
      dropship |-> "TotalWarDropshipExtendedData" ]

\* src/NullgModels/EquipmentModels.py:451-467
EquipmentTypesMap ==
    [ weapon |-> "WeaponItem", other |-> "OtherItem", armor |-> "ArmorItem",
      cockpit |-> "CockpitItem", structure |-> "StructureItem", engine |-> "EngineItem",
      conversion |-> "ConversionItem", manipulator |-> "ManipulatorItem",
      gyro |-> "GyroItem", ammo |-> "AmmoItem", heatsink |-> "HeatSinkItem",
      bay |-> "BayItem", myomer |-> "MyomerItem", enhancement |-> "EnhancementItem",
      weaponbay |-> "WeaponBayItem" ]

\* the field names the validators look up; NullgModels.Constants holds them,
\* the field declarations and the validators' documentation give their values
FIELD_UNIT_TYPE == "unitType"
FIELD_TOTAL_WAR == "totalWar"
FIELD_EQUIPMENT_TYPE == "equipmentType"

\* the record schemas with a variant field: the discriminator field and its
\* declared type, the variant field, the branch map and the validator's messages
RecordSchemas ==
    [ UnitData |->
        [ discriminator |-> FIELD_UNIT_TYPE, enum |-> "UnitType", optional |-> FALSE,
          variant |-> FIELD_TOTAL_WAR, map |-> UnitTypesMap,
          union |-> <<"TotalWarDropshipData", "TotalWarInfantryData", "TotalWarAerospaceData",
                      "TotalWarBattleMechData", "TotalWarVehicleData">>,
          invalid |-> "Invalid unit type",
          notAMember |-> "Invalid unit type",
          missing |-> "Unit type id field does not exist" ],
      UnitDataExtended |->
        [ discriminator |-> FIELD_UNIT_TYPE, enum |-> "UnitType", optional |-> FALSE,
          variant |-> FIELD_TOTAL_WAR, map |-> UnitTypesMapExtended,
          union |-> <<"TotalWarDropshipExtendedData", "TotalWarInfantryExtendedData",
                      "TotalWarAerospaceExtendedData", "TotalWarBattleMechExtendedData",
                      "TotalWarVehicleExtendedData">>,
          invalid |-> "Invalid unit type",
          notAMember |-> "Invalid unit type",
          missing |-> "Unit type id field does not exist" ],
      EquipmentItem |->
        [ discriminator |-> FIELD_EQUIPMENT_TYPE, enum |-> "EquipmentType", optional |-> TRUE,
          variant |-> "item", map |-> EquipmentTypesMap,
          union |-> <<"WeaponItem", "OtherItem", "CockpitItem", "AmmoItem", "HeatSinkItem",
                      "BayItem", "GyroItem", "EngineItem", "StructureItem", "ConversionItem",
                      "ArmorItem", "ManipulatorItem", "MyomerItem", "WeaponBayItem",
                      "EnhancementItem">>,
          invalid |-> "Invalid equipment type",
          notAMember |-> "is not a valid EquipmentType",
          missing |-> "Equipment Item Type does not exist" ] ]

\* a step of field validation: the value stored, or the error reported
Valid(value) == [ok |-> TRUE, value |-> value, msg |-> ""]
Invalid(msg) == [ok |-> FALSE, value |-> PyNone, msg |-> msg]

\* the discriminator field declared with a member as its default
ValidateDiscriminatorDefaultMember(schema, rawValue) ==
    IF rawValue.j \in {"absent", "null"} THEN Valid(EnumMember(schema.enum, "0"))
    ELSE IF rawValue.j = "int" /\ IsEnumValue(schema.enum, rawValue.text)
    THEN Valid(EnumMember(schema.enum, rawValue.text))
    ELSE Invalid("Input should be a member of the enum")

\* validation of the discriminator field against its declared enum type; an
\* absent key takes the declared default None without validation
ValidateDiscriminator(schema, rawValue) ==
    IF rawValue.j = "absent" THEN Valid(PyNone)
    ELSE IF rawValue.j = "null"
    THEN (IF schema.optional THEN Valid(PyNone) ELSE Invalid("Input should be a member of the enum"))
    ELSE IF rawValue.j = "int" /\ IsEnumValue(schema.enum, rawValue.text)
    THEN Valid(EnumMember(schema.enum, rawValue.text))
    ELSE Invalid("Input should be a member of the enum")

\* info.data: the fields validated before the variant field; a field whose
\* validation failed is left out
InfoData(schema, discriminatorStep) ==
    IF discriminatorStep.ok THEN {schema.discriminator} ELSE {}

\* mass: Optional[float] of the branch schemas: an int is coerced to a float
CoerceOptionalFloat(rawValue) ==
    IF rawValue.j \in {"absent", "null"} THEN Valid(PyNone)
    ELSE IF rawValue.j = "float" THEN Valid(PyFloat(rawValue.text))
    ELSE IF rawValue.j = "int" THEN Valid(PyFloat(rawValue.text \o ".0"))
    ELSE Invalid("Input should be a valid number")

\* Branch(**v): an instance of the branch schema built from the payload
Instance(branch, massValue) == [py |-> branch, v |-> massValue]
Construct(branch, payload) ==
    LET m == CoerceOptionalFloat(payload.mass[1])
    IN  IF m.ok THEN Valid(Instance(branch, m.value.v)) ELSE Invalid("branch validation error")

\* the declared Optional[Union[...]] type of the variant field, applied to
\* what the validator returned: None passes, an instance of a member class is
\* kept as it is, anything else matches no member
ValidateUnion(schema, step) ==
    IF ~step.ok \/ step.value = PyNone THEN step
    ELSE IF \E i \in DOMAIN schema.union : schema.union[i] = step.value.py THEN step
    ELSE Invalid("Input should be a valid dictionary or instance")

\* validate_totalwar_type / validate_item_type (mode='before'): the value
\* handed on to the declared type of the variant field, or the ValueError
BeforeValidator(schema, v, data, discriminatorStep) ==
    IF v.j # "null" /\ v.j = "dict"
    THEN IF schema.discriminator \in data /\ IsInstanceInt(discriminatorStep.value)
         THEN LET member == discriminatorStep.value.v
              IN  IF ~IsEnumValue(schema.enum, EnumValues[schema.enum][member])
                  THEN Invalid(schema.notAMember)
                  ELSE IF member \notin DOMAIN schema.map THEN Invalid(schema.invalid)
                  ELSE Construct(schema.map[member], v)
         ELSE Invalid(schema.missing)
    ELSE IF v.j = "null" THEN Valid(PyNone)
    ELSE Valid([py |-> v.j, v |-> v.text])

\* the variant field: an absent key takes the default None and no validator
\* runs; otherwise the 'before' validator, then the declared union type
ValidateVariant(schema, v, data, discriminatorStep) ==
    IF v.j = "absent" THEN Valid(PyNone)
    ELSE ValidateUnion(schema, BeforeValidator(schema, v, data, discriminatorStep))

\* the outcome of Model(**raw): the typed record, or the ValidationError with
\* the error of every field that failed
NotDecoded == [kind |-> "notdecoded", discriminator |-> PyNone, variant |-> PyNone, errors |-> {}]
Decode(record) ==
    LET schema == RecordSchemas[record.model]
        d == ValidateDiscriminator(schema, record.discriminator)
        data == InfoData(schema, d)
        t == ValidateVariant(schema, record.variant, data, d)
        errors == (IF d.ok THEN {} ELSE {<<schema.discriminator, d.msg>>})
                  \cup (IF t.ok THEN {} ELSE {<<schema.variant, t.msg>>})
    IN  IF errors = {}
        THEN [kind |-> "record", discriminator |-> d.value, variant |-> t.value, errors |-> {}]
        ELSE [kind |-> "ValidationError", discriminator |-> PyNone, variant |-> PyNone,
              errors |-> errors]

(***************************************************************************)
(* UploadUnitData and the UnitData / EquipmentItem of Models.py: their      *)
(* 'before' validators take the payload alone and look the code up in it.   *)
(***************************************************************************)
\* src/NullgModels/UploadModels.py:187-193
UploadUnitTypesMap ==
    [ mech |-> "UploadTotalWarBattleMechDataData", vehicle |-> "UploadTotalWarVehicleData",
      infantry |-> "UploadTotalWarInfantryData", aerospace |-> "UploadTotalWarAerospaceData",
      dropship |-> "UploadTotalWarDropshipData" ]

\* src/Models.py:525-537, the if/elif chain on v['unitType']
LegacyUnitTypesMap ==
    [ mech |-> "TotalWarBattleMech", vehicle |-> "TotalWarVehicle",
      infantry |-> "TotalWarInfantry", aerospace |-> "TotalWarAerospace",
      dropship |-> "TotalWarDropship" ]

\* FIELD_UNIT_TYPE_ID of NullgModels.Constants, the name of the field unitTypeId
FIELD_UNIT_TYPE_ID == "unitTypeId"

\* the record schemas whose validator reads the payload: the sibling field
\* and its declared type, the key looked up in the payload, the variant
\* field, and whether the validator tests the payload before subscripting it
PayloadKeyedSchemas ==
    [ UploadUnitData |->
        [ discriminator |-> FIELD_UNIT_TYPE_ID, type |-> "int", required |-> TRUE,
          key |-> FIELD_UNIT_TYPE_ID, enum |-> "UnitType", byName |-> FALSE,
          variant |-> FIELD_TOTAL_WAR, guarded |-> TRUE, massRequired |-> TRUE,
          map |-> UploadUnitTypesMap,
          invalid |-> "Invalid unit type",
          missing |-> "Unit type id field does not exist" ],
      LegacyUnitData |->
        [ discriminator |-> "unitType", type |-> "str", required |-> FALSE,
          key |-> "unitType", enum |-> "UnitType", byName |-> TRUE,
          variant |-> "totalWar", guarded |-> FALSE, massRequired |-> FALSE,
          map |-> LegacyUnitTypesMap,
          invalid |-> "Invalid unit type",
          missing |-> "" ],
      LegacyEquipmentItem |->
        [ discriminator |-> "equipmentTypeId", type |-> "int", required |-> FALSE,
          key |-> "equipmentTypeId", enum |-> "EquipmentType", byName |-> FALSE,
          variant |-> "item", guarded |-> FALSE, massRequired |-> FALSE,
          map |-> EquipmentTypesMap,
          invalid |-> "Invalid Equipment Item Type",
          missing |-> "" ] ]

\* the class bodies in declaration order: the first field, the discriminator
\* field, the variant field and the fields declared next to them; a field
\* that a subclass declares again keeps the place it has in the base class
DeclaredFields ==
    [ UnitData |->
        <<"id", "alphaStrikeResults", "unitType", "unitSubtype", "expanded", "totalWar",
          "bvResults">>,
      UnitDataExtended |->
        <<"id", "alphaStrikeResults", "unitType", "unitSubtype", "expanded", "totalWar",
          "bvResults", "mulData">>,
      EquipmentItem |->
        <<"id", "equipmentType", "name", "metadata", "rulesLevel", "item">>,
      UploadUnitData |->
        <<"id", "availableEras", "totalWar", "bvResults", "unitTypeId", "unitSubtypeId">>,
      LegacyUnitData |->
        <<"id", "unitType", "productionEra", "alphaStrikeResults", "totalWar">>,
      LegacyEquipmentItem |->
        <<"id", "equipmentType", "equipmentTypeId", "name", "rulesLevel", "item">> ]

\* the fields validated before the given field: the keys info.data can hold
\* when the field's validator runs
DeclaredBefore(model, field) ==
    LET fields == DeclaredFields[model]
    IN  {fields[j] : j \in {k \in DOMAIN fields : \E i \in DOMAIN fields :
                                  fields[i] = field /\ k < i}}

\* validation of a sibling field declared int, str, Optional[int] or
\* Optional[str]
ValidateScalarField(schema, rawValue) ==
    IF rawValue.j = "absent"
    THEN (IF schema.required THEN Invalid("Field required") ELSE Valid(PyNone))
    ELSE IF rawValue.j = "null"
    THEN (IF schema.required THEN Invalid("Input should be a valid " \o schema.type)
          ELSE Valid(PyNone))
    ELSE IF rawValue.j = schema.type THEN Valid([py |-> schema.type, v |-> rawValue.text])
    ELSE Invalid("Input should be a valid " \o schema.type)

\* mass: float of the upload branch schemas, mass: Optional[float] of the others
CoerceFloat(required, rawValue) ==
    IF required /\ rawValue.j = "absent" THEN Invalid("Field required")
    ELSE IF required /\ rawValue.j = "null" THEN Invalid("Input should be a valid number")
    ELSE CoerceOptionalFloat(rawValue)

\* Branch(**v) for the payload-keyed schemas
ConstructWith(required, branch, payload) ==
    LET m == CoerceFloat(required, payload.mass[1])
    IN  IF m.ok THEN Valid(Instance(branch, m.value.v)) ELSE Invalid("branch validation error")

\* the member the payload's own entry selects, "" when it selects none:
\* UnitType(v[FIELD_UNIT_TYPE_ID]), v['unitType'] == 'mech',
\* v['equipmentTypeId'] == EquipmentType.weapon
SelectedByPayload(schema, tagValue) ==
    IF schema.byName
    THEN (IF tagValue.j = "str" /\ tagValue.text \in DOMAIN EnumValues[schema.enum]
          THEN tagValue.text ELSE "")
    ELSE (IF tagValue.j = "int" /\ IsEnumValue(schema.enum, tagValue.text)
          THEN EnumMember(schema.enum, tagValue.text).v ELSE "")

\* an exception that is no ValueError and so leaves the constructor as it is
Raised(exception) == [ok |-> FALSE, value |-> PyNone, msg |-> exception]
Exceptions == {"<TypeError>", "<KeyError>"}

\* the validate_totalwar_type / validate_item_type of these schemas
PayloadBeforeValidator(schema, v) ==
    IF schema.guarded
    THEN IF v.j # "null" /\ v.j = "dict"
         THEN IF v.tag[1].j # "absent" /\ v.tag[1].j = "int"
              THEN LET member == SelectedByPayload(schema, v.tag[1])
                   IN  IF member = "" THEN Invalid(schema.invalid)
                       ELSE IF member \notin DOMAIN schema.map THEN Invalid(schema.invalid)
                       ELSE ConstructWith(schema.massRequired, schema.map[member], v)
              ELSE Invalid(schema.missing)
         ELSE IF v.j = "null" THEN Valid(PyNone)
         ELSE Valid([py |-> v.j, v |-> v.text])
    ELSE IF v.j # "dict" THEN Raised("<TypeError>")
    ELSE IF v.tag[1].j = "absent" THEN Raised("<KeyError>")
    ELSE LET member == SelectedByPayload(schema, v.tag[1])
         IN  IF member = "" THEN Invalid(schema.invalid)
             ELSE ConstructWith(schema.massRequired, schema.map[member], v)

\* the variant field of these schemas; UploadUnitData declares it without a
\* default
ValidatePayloadKeyedVariant(schema, v) ==
    IF v.j = "absent"
    THEN (IF schema.required THEN Invalid("Field required") ELSE Valid(PyNone))
    ELSE LET step == PayloadBeforeValidator(schema, v)
         IN  IF step.ok /\ step.value.py \in {"int", "float", "str"}
             THEN Invalid("Input should be a valid dictionary or instance")
             ELSE step

\* UploadUnitData(**raw) and the UnitData(**raw) / EquipmentItem(**raw) of
\* Models.py
DecodePayloadKeyed(record) ==
    LET schema == PayloadKeyedSchemas[record.model]
        d == ValidateScalarField(schema, record.discriminator)
        t == ValidatePayloadKeyedVariant(schema, record.variant)
        errors == (IF d.ok THEN {} ELSE {<<schema.discriminator, d.msg>>})
                  \cup (IF t.ok THEN {} ELSE {<<schema.variant, t.msg>>})
    IN  IF ~t.ok /\ t.msg \in Exceptions
        THEN [kind |-> t.msg, discriminator |-> PyNone, variant |-> PyNone, errors |-> {}]
        ELSE IF errors = {}
        THEN [kind |-> "record", discriminator |-> d.value, variant |-> t.value, errors |-> {}]
        ELSE [kind |-> "ValidationError", discriminator |-> PyNone, variant |-> PyNone,
              errors |-> errors]

\* a decoder that keeps the outcome of its last successful call per schema
\* and answers from it
DecodeAnyCached(record) ==
    LET hits == {i \in DOMAIN log : /\ log[i].record.model = record.model
                                    /\ log[i].outcome.kind = "record"}
    IN  IF hits # {} THEN log[CHOOSE i \in hits : \A k \in hits : k <= i].outcome
        ELSE IF record.model \in DOMAIN RecordSchemas THEN Decode(record)
        ELSE DecodePayloadKeyed(record)

\* Model(**raw) for every record schema with a variant field
DecodeAny(record) ==
    IF record.model \in DOMAIN RecordSchemas THEN Decode(record)
    ELSE DecodePayloadKeyed(record)

\* the raw records handed to the decoder
RawCodes == {"0", "1", "2", "3", "4", "7", "14", "99"}
RawNames == {"mech", "vehicle"}
RawDiscriminators ==
    {RawAbsent, RawNull} \cup {RawInt(c) : c \in RawCodes} \cup {RawStr(n) : n \in RawNames}
RawMasses == {RawAbsent, RawInt("50"), RawFloat("72.5"), RawStr("heavy")}
RawTags == {RawAbsent, RawInt("2"), RawInt("4"), RawInt("99"), RawStr("mech"), RawStr("vehicle")}
RawVariants ==
    {RawAbsent, RawNull, RawInt("5")}
        \cup {RawTaggedMapping(m, t) : m \in RawMasses, t \in RawTags}
RawRecords ==
    [model : DOMAIN RecordSchemas \cup DOMAIN PayloadKeyedSchemas,
     discriminator : RawDiscriminators, variant : RawVariants]
NoRecord == [model |-> "", discriminator |-> RawAbsent, variant |-> RawAbsent]

\* the decode calls of one process: at most MaxCalls; the calls after the
\* first take the first record again or one of a few others
MaxCalls == 3
FollowUps ==
    { [model |-> "UnitData", discriminator |-> RawInt("4"),
       variant |-> RawMapping(RawFloat("72.5"))],
      [model |-> "UploadUnitData", discriminator |-> RawInt("2"),
       variant |-> RawTaggedMapping(RawInt("50"), RawInt("4"))],
      [model |-> "EquipmentItem", discriminator |-> RawAbsent,
       variant |-> RawMapping(RawInt("50"))] }

(***************************************************************************)
(* NullGConnector: _get_item_class and _parse_items.                       *)
(***************************************************************************)
\* module attributes, by the kind of object the name is bound to: a model
\* class, a typing construct, an enum class, a function, a str
BattletechModels ==
    [ UnitData |-> "model", Dict |-> "typing", List |-> "typing", UnitType |-> "enum",
      Field |-> "function", __name__ |-> "str" ]
HardwarModels ==
    [ ElementData |-> "model", BaseModel |-> "model", List |-> "typing",
      Field |-> "function", __name__ |-> "str" ]
EquipmentModels ==
    [ EquipmentItem |-> "model", BaseModel |-> "model", Dict |-> "typing", List |-> "typing",
      Field |-> "function", __name__ |-> "str" ]

\* hasattr(module, name) / getattr(module, name)
hasattr(module, name) == name \in DOMAIN module
ItemClass(moduleName, name, what) ==
    [kind |-> "object", module |-> moduleName, name |-> name, what |-> what]
ItemClassError == [kind |-> "ValueError", module |-> "", name |-> "", what |-> ""]
NotLooked == [kind |-> "notlooked", module |-> "", name |-> "", what |-> ""]

_get_item_class(itemClassStr) ==
    IF hasattr(BattletechModels, itemClassStr)
    THEN ItemClass("BattletechModels", itemClassStr, BattletechModels[itemClassStr])
    ELSE IF hasattr(HardwarModels, itemClassStr)
    THEN ItemClass("HardwarModels", itemClassStr, HardwarModels[itemClassStr])
    ELSE IF hasattr(EquipmentModels, itemClassStr)
    THEN ItemClass("EquipmentModels", itemClassStr, EquipmentModels[itemClassStr])
    ELSE IF itemClassStr = "dict" THEN ItemClass("builtins", "dict", "builtin")
    ELSE ItemClassError

\* a ServerResponseItem: totalItems, itemClass and items, each item a dict
\* that does or does not validate against the schema named
ServerResponseItem(totalItems, itemClassStr, items) ==
    [totalItems |-> totalItems, itemClass |-> itemClassStr, items |-> items]
ResponseFields == {"currentPage", "totalPages", "itemsPerPage", "totalItems", "itemClass",
                   "items", "status", "message"}

\* what _parse_items returns or raises
Parsed(count) == [kind |-> "models", msg |-> "", count |-> count]
ParseError(kind, msg) == [kind |-> kind, msg |-> msg, count |-> 0]
NotParsed == [kind |-> "notparsed", msg |-> "", count |-> 0]

\* results.<name>: an attribute that is no field of ServerResponseItem raises
\* AttributeError
MissingAttributes(names) == names \ ResponseFields

_parse_items(r) ==
    IF r.totalItems = 0
    THEN IF MissingAttributes({"itemClass", "filter"}) # {}
         THEN ParseError("AttributeError",
                         "'ServerResponseItem' object has no attribute 'filter'")
         ELSE ParseError("ValueError", "No results found for " \o r.itemClass)
    ELSE LET cls == _get_item_class(r.itemClass)
         IN  IF cls.kind = "ValueError"
             THEN ParseError("ValueError", "Invalid item class None")
             ELSE IF cls.what = "model" /\ \E i \in DOMAIN r.items : r.items[i] = "invalid"
             THEN ParseError("ValidationError", "")
             ELSE Parsed(Len(r.items))

\* the responses and the names handed in
MaxItems == 2
ResponseClasses == {"UnitData", "ElementData", "EquipmentItem", "dict", "Dict", "NoSuchModel"}
ClassNames ==
    ResponseClasses \cup {"BaseModel", "List", "UnitType", "Field", "__name__"}
ItemLists ==
    UNION {[1..n -> {"valid", "invalid"}] : n \in 0..MaxItems}
NoResults == ServerResponseItem(0, "", <<>>)

(***************************************************************************)
(* The schema graph.  Root is a record schema with one field of each kind; *)
(* its totalWar field is a union of the two branch schemas B1 and B2,      *)
(* whose fields are declared one at a time, at most MaxFields each.        *)
(***************************************************************************)
MaxFields == 2

SubFields ==
    << FieldDecl("name", OptionalT(StrT), "Name of the component", <<Example("str", "Standard")>>),
       FieldDecl("id", OptionalT(IntT), "", <<>>),
       FieldDecl("availableEras", ListT(<<IntT>>), "Era Ids in which the unit is available in",
                 <<Example("str", "[1, 3]")>>),
       FieldDecl("bvResults", DictT(<<StrT, AnyT>>), "Battle Value v2 Calculation Data", <<>>),
       FieldDecl("extreme", OptionalT(ListT(<<FloatT>>)), "Extreme range damage values", <<>>) >>
Sub2Fields ==
    << FieldDecl("name", OptionalT(IntT), "Bay name id", <<>>),
       FieldDecl("doors", OptionalT(IntT), "Number of doors", <<Example("int", "2")>>) >>
RootFields ==
    << FieldDecl("id", OptionalT(StrT), "The Null-G unit id", <<>>),
       FieldDecl("barcodes", OptionalT(ListT(<<StrT>>)), "Barcodes of any boxsets", <<>>),
       FieldDecl("metadata", OptionalT(DictT(<<StrT, BoolT>>)), "Metadata", <<>>),
       FieldDecl("factions", OptionalT(ListT(<<IntT>>)), "List of Faction Ids", <<>>),
       FieldDecl("alphaStrikeResults", OptionalT(DictT(<<StrT, AnyT>>)),
                 "Alpha Strike Calculation Data", <<>>),
       FieldDecl("alphaStrike", OptionalT(ModelT("Sub")), "Alpha Strike Data", <<>>),
       FieldDecl("unitType", EnumT("UnitType"), "Type of unit", <<>>),
       FieldDecl("expanded", BoolT, "Is the unit data expanded",
                 <<Example("bool", "True"), Example("bool", "False")>>),
       FieldDecl("totalWar", OptionalT(UnionT(<<ModelT("B1"), ModelT("B2")>>)), "Total War Data", <<>>),
       FieldDecl("pilotData", OptionalT(ListT(<<ModelT("Sub")>>)), "List of Pilot Data", <<>>),
       FieldDecl("equipmentList", ListT(<<ModelT("Sub2")>>),
                 "Equipment, Weapons and Ammunition", <<>>) >>

BranchDecls ==
    { FieldDecl("mass", OptionalT(FloatT), "Unit mass in tons", <<Example("float", "50.0")>>),
      FieldDecl("mass", OptionalT(IntT), "Mass", <<>>),
      FieldDecl("damage", OptionalT(ModelT("Sub")), "", <<>>),
      FieldDecl("damage", OptionalT(ModelT("Sub2")), "", <<>>),
      FieldDecl("damage", OptionalT(BuiltinDictT), "", <<>>),
      FieldDecl("crew", OptionalT(ListT(<<StrT>>)), "Crew names", <<Example("str", "Kai")>>),
      FieldDecl("crew", OptionalT(ListT(<<ModelT("Sub")>>)), "Crew records", <<>>),
      FieldDecl("transportSpace", OptionalT(DictT(<<>>)), "Transport bay space", <<>>) }

Models == {"Root", "B1", "B2", "Sub", "Sub2"}
NoSchemas == [m \in Models |-> <<>>]
InitialSchemas ==
    [m \in Models |->
        CASE m = "Root" -> RootFields
          [] m = "Sub" -> SubFields
          [] m = "Sub2" -> Sub2Fields
          [] OTHER -> <<>>]

NoCall == [model |-> "", prefix |-> <<>>, category |-> NoneStr]

\* a field declaration in the class body of a branch schema
Declare(b, d) ==
    /\ catalog = NotWalked
    /\ Len(schemas[b]) < MaxFields
    /\ \A i \in 1..Len(schemas[b]) : schemas[b][i].name # d.name
    /\ schemas' = [schemas EXCEPT ![b] = Append(@, d)]
    /\ UNCHANGED <<call, catalog, queryVars, decodeVars, connectorVars, objectVars>>

\* one call of walk_model_fields on the root schema
Walk(prefix, category) ==
    /\ catalog = NotWalked
    /\ call' = [model |-> "Root", prefix |-> prefix, category |-> category]
    /\ catalog' = walk_model_fields("Root", prefix, category)
    /\ UNCHANGED <<schemas, queryVars, decodeVars, connectorVars, objectVars>>

CatalogInit ==
    /\ schemas = InitialSchemas /\ call = NoCall /\ catalog = NotWalked
    /\ expr = DictOf(<<>>) /\ steps = 0 /\ fresult = NotRun /\ presult = NotRun
    /\ raw = NoRecord /\ decoded = NotDecoded /\ log = <<>>
    /\ results = NoResults /\ parsed = NotParsed /\ itemClass = NotLooked
    /\ request = NoRequest /\ object = NoObject /\ security = NotRun /\ sent = NotSent
CatalogNext ==
    \/ \E b \in {"B1", "B2"}, d \in BranchDecls : Declare(b, d)
    \/ \E prefix \in {<<>>, <<"unit">>}, category \in {NoneStr, SomeStr("units")} :
          Walk(prefix, category)
SpecCatalog == CatalogInit /\ [][CatalogNext]_vars

\* the server's response, parsed by _parse_response, arrives
Respond(totalItems, itemClassStr, items) ==
    /\ results = NoResults /\ parsed = NotParsed
    /\ results' = ServerResponseItem(totalItems, itemClassStr, items)
    /\ UNCHANGED <<parsed, itemClass, queryVars, catalogVars, decodeVars, objectVars>>

\* models = self._parse_items(response)
ParseItems ==
    /\ results # NoResults /\ parsed = NotParsed
    /\ parsed' = _parse_items(results)
    /\ UNCHANGED <<results, itemClass, queryVars, catalogVars, decodeVars, objectVars>>

\* a call of _get_item_class; the string asked for is kept with the outcome
GetItemClass(itemClassStr) ==
    /\ itemClass = NotLooked
    /\ itemClass' = IF _get_item_class(itemClassStr).kind = "ValueError"
                    THEN [ItemClassError EXCEPT !.name = itemClassStr]
                    ELSE _get_item_class(itemClassStr)
    /\ UNCHANGED <<results, parsed, queryVars, catalogVars, decodeVars, objectVars>>

ConnectorInit ==
    /\ results = NoResults /\ parsed = NotParsed /\ itemClass = NotLooked
    /\ request = NoRequest /\ object = NoObject /\ security = NotRun /\ sent = NotSent
    /\ raw = NoRecord /\ decoded = NotDecoded /\ log = <<>>
    /\ schemas = NoSchemas /\ call = NoCall /\ catalog = NotWalked
    /\ expr = DictOf(<<>>) /\ steps = 0 /\ fresult = NotRun /\ presult = NotRun
ConnectorNext ==
    \/ \E totalItems \in 0..MaxItems, itemClassStr \in ResponseClasses, items \in ItemLists :
          Respond(totalItems, itemClassStr, items)
    \/ ParseItems
    \/ \E itemClassStr \in ClassNames : GetItemClass(itemClassStr)
SpecConnector == ConnectorInit /\ [][ConnectorNext]_vars

\* a record arrives from storage or transport
Receive(record) ==
    /\ raw = NoRecord
    /\ raw' = record
    /\ UNCHANGED <<decoded, log, queryVars, catalogVars, connectorVars, objectVars>>

\* the call has returned or raised; the next record arrives
ReceiveNext ==
    /\ decoded # NotDecoded
    /\ Len(log) + 1 < MaxCalls
    /\ log' = Append(log, [record |-> raw, outcome |-> decoded])
    /\ raw' \in FollowUps \cup {raw} \cup {log[i].record : i \in DOMAIN log}
    /\ decoded' = NotDecoded
    /\ UNCHANGED <<queryVars, catalogVars, connectorVars, objectVars>>

\* UnitData(**raw), UnitDataExtended(**raw), EquipmentItem(**raw), ...
DecodeRecord ==
    /\ raw # NoRecord
    /\ decoded = NotDecoded
    /\ decoded' = DecodeAny(raw)
    /\ UNCHANGED <<raw, log, queryVars, catalogVars, connectorVars, objectVars>>

DecodeInit ==
    /\ raw = NoRecord /\ decoded = NotDecoded /\ log = <<>>
    /\ results = NoResults /\ parsed = NotParsed /\ itemClass = NotLooked
    /\ request = NoRequest /\ object = NoObject /\ security = NotRun /\ sent = NotSent
    /\ schemas = NoSchemas /\ call = NoCall /\ catalog = NotWalked
    /\ expr = DictOf(<<>>) /\ steps = 0 /\ fresult = NotRun /\ presult = NotRun
DecodeNext ==
    \/ \E record \in RawRecords : Receive(record)
    \/ DecodeRecord
    \/ ReceiveNext
SpecDecode == DecodeInit /\ [][DecodeNext]_vars

(***************************************************************************)
(* The expressions the validators are run on.  An expression is grown from *)
(* a leaf by at most MaxDepth wrapping steps; each step puts the           *)
(* expression under a key of a new dict, alone or next to a sibling item,  *)
(* or into a new list, alone or next to a sibling element.                 *)
(***************************************************************************)
MaxDepth == 3

mass == Str("m", "ass")
gte == Str("$", "gte")
and == Str("$", "and")
merge == Str("$", "merge")
out == Str("$", "out")
match == Str("$", "match")
fifty == Scalar(PyInt("50"))
outText == Scalar(Str("$", "out"))
otherCollection == Scalar(Str("o", "therCollection"))

\* field names and operators of a JSON request body: every key is a string
JsonKeys == {mass, gte, and, merge, out, match}
\* the keys a Python dict can hold: any hashable scalar
PyKeys == JsonKeys \cup {PyInt("1")}

Leaves == {fifty, outText, otherCollection, DictOf(<<>>)}

\* {"$gte": 50}, {"mass": {"$gte": 50}} and {"$match": {"mass": {"$gte": 50}}}
Gte50 == DictOf(<< <<gte, fifty>> >>)
MassGte50 == DictOf(<< <<mass, Gte50>> >>)
MatchStage == DictOf(<< <<match, MassGte50>> >>)

Wraps(e, keys) ==
    {DictOf(<< <<k, e>> >>) : k \in keys}
    \cup {ListOf(<<e>>), ListOf(<<MassGte50, e>>), ListOf(<<MatchStage, e>>),
          ListOf(<<e, outText>>)}
    \cup {DictOf(<< <<mass, Gte50>>, <<k, e>> >>) : k \in keys \ {mass, gte, out}}
    \cup {DictOf(<< <<k, e>>, <<out, fifty>> >>) : k \in keys \ {gte, and, merge, out}}

\* the caller builds the expression it will submit, one level at a time
Build(keys) ==
    /\ fresult = NotRun
    /\ presult = NotRun
    /\ steps < MaxDepth
    /\ expr' \in Wraps(expr, keys)
    /\ steps' = steps + 1
    /\ UNCHANGED <<fresult, presult, catalogVars, decodeVars, connectorVars, objectVars>>

(***************************************************************************)
(* SearchFilter.validate_security and PipelineFilter.validate_security:    *)
(* each runs its validator once on the expression the object holds.        *)
(***************************************************************************)
ValidateFilter ==
    /\ fresult = NotRun
    /\ fresult' = validate_filter(expr)
    /\ UNCHANGED <<expr, steps, presult, catalogVars, decodeVars, connectorVars, objectVars>>

ValidatePipeline ==
    /\ presult = NotRun
    /\ presult' = validate_pipeline(expr)
    /\ UNCHANGED <<expr, steps, fresult, catalogVars, decodeVars, connectorVars, objectVars>>

\* expressions decoded from a JSON request body: every key is a string
QueryInit ==
    /\ expr \in Leaves /\ steps = 0 /\ fresult = NotRun /\ presult = NotRun
    /\ schemas = NoSchemas /\ call = NoCall /\ catalog = NotWalked
    /\ raw = NoRecord /\ decoded = NotDecoded /\ log = <<>>
    /\ results = NoResults /\ parsed = NotParsed /\ itemClass = NotLooked
    /\ request = NoRequest /\ object = NoObject /\ security = NotRun /\ sent = NotSent
JsonNext == Build(JsonKeys) \/ ValidateFilter \/ ValidatePipeline
SpecJson == QueryInit /\ [][JsonNext]_vars

\* expressions built by a Python caller: keys of any hashable scalar type
PyNext == Build(PyKeys) \/ ValidateFilter \/ ValidatePipeline
SpecPy == QueryInit /\ [][PyNext]_vars

(***************************************************************************)
(* The calls made on filter objects.  The values handed to the             *)
(* constructors are the documented examples of the query fields, a few     *)
(* expressions with operators outside the lists, and every expression one  *)
(* wrapping step away from these.                                          *)
(***************************************************************************)
\* examples=[...] of SearchFilter.filter
FilterExamples ==
    LET name == Str("n", "ame")
        walkMp == Str("t", "otalWar.walkMp")
        size == Str("a", "lphaStrike.size")
        damageShort == Str("a", "lphaStrike.damageShort")
    IN  << DictOf(<< <<name, Scalar(Str("W", "arhammer"))>> >>),
           DictOf(<< <<walkMp, DictOf(<< <<gte, Scalar(PyInt("5"))>> >>)>> >>),
           DictOf(<< <<and, ListOf(<<
               DictOf(<< <<size, Scalar(PyInt("2"))>> >>),
               DictOf(<< <<damageShort,
                           DictOf(<< <<gte, Scalar(PyInt("3"))>> >>)>> >>) >>)>> >>),
           DictOf(<< <<name, DictOf(<< <<Str("$", "regex"), Scalar(Str("A", "tlas"))>>,
                                       <<Str("$", "options"), Scalar(Str("i", ""))>> >>)>> >>) >>

\* the first of examples=[...] of PipelineFilter.pipeline
PipelineExample ==
    ListOf(<< MatchStage,
              DictOf(<< <<Str("$", "group"), DictOf(<<
                  <<Str("_", "id"), Scalar(Str("$", "weightClassId"))>>,
                  <<Str("c", "ount"),
                    DictOf(<< <<Str("$", "sum"), Scalar(PyInt("1"))>> >>)>> >>)>> >>) >>)

\* {"$merge": {}}, [{"$match": ...}, {"$out": "otherCollection"}] and {1: 50}
MergeFilter == DictOf(<< <<merge, DictOf(<<>>)>> >>)
OutPipeline == ListOf(<<MatchStage, DictOf(<< <<out, otherCollection>> >>)>>)
IntKeyed == DictOf(<< <<PyInt("1"), fifty>> >>)

BaseArguments ==
    {FilterExamples[i] : i \in DOMAIN FilterExamples}
        \cup {PipelineExample, MergeFilter, OutPipeline, IntKeyed, DictOf(<<>>),
              ListOf(<<>>), fifty, MassGte50}
QueryArguments ==
    BaseArguments \cup UNION {Wraps(e, PyKeys) : e \in BaseArguments}
        \cup {Missing, NoneValue}

\* the integers handed to page and itemsPerPage
PageInputs == {-3, 0, 1, 5, 9, 10, 50, 100, 101, 500, 1000, 1001, 5000}
PageArguments == {NoArg, NoneArg} \cup {IntArg(n) : n \in PageInputs}

\* the query handed over together with paging arguments
PagedQuery(cls) == IF cls = "PipelineFilter" THEN PipelineExample ELSE FilterExamples[1]

\* the values assigned to obj.filter / obj.pipeline after construction
AssignedValues ==
    {MergeFilter, OutPipeline, FilterExamples[4], DictOf(<<>>), fifty, IntKeyed, NoneValue}

\* obj = SearchFilter(...) / PipelineFilter(...) / MongoQuery(...)
ConstructFilter(cls, query, page, itemsPerPage) ==
    /\ request = NoRequest
    /\ request' = [op |-> "construct", cls |-> cls, query |-> query, page |-> page,
                   itemsPerPage |-> itemsPerPage]
    /\ object' = FilterObject(cls, query, page, itemsPerPage)
    /\ UNCHANGED <<security, sent, queryVars, catalogVars, decodeVars, connectorVars>>

\* obj.filter = value / obj.pipeline = value
AssignQuery(value) ==
    /\ request.op = "construct" /\ object.error = ""
    /\ security = NotRun /\ sent = NotSent
    /\ request' = [request EXCEPT !.op = "assign", !.query = value]
    /\ object' = SetQuery(object, value)
    /\ UNCHANGED <<security, sent, queryVars, catalogVars, decodeVars, connectorVars>>

\* obj.validate_security()
ValidateSecurity ==
    /\ object.cls # "" /\ object.error = ""
    /\ security = NotRun
    /\ security' = validate_security(object)
    /\ UNCHANGED <<request, object, sent, queryVars, catalogVars, decodeVars, connectorVars>>

\* NullGConnector.search_units(obj) and the other search_* methods:
\* _make_rest_call(endpoint, json_data=search_filter.model_dump(), ...)
SearchUnits ==
    /\ object.cls # "" /\ object.error = ""
    /\ sent = NotSent
    /\ sent' = model_dump(object)
    /\ UNCHANGED <<request, object, security, queryVars, catalogVars, decodeVars, connectorVars>>

ObjectInit ==
    /\ request = NoRequest /\ object = NoObject /\ security = NotRun /\ sent = NotSent
    /\ expr = DictOf(<<>>) /\ steps = 0 /\ fresult = NotRun /\ presult = NotRun
    /\ schemas = NoSchemas /\ call = NoCall /\ catalog = NotWalked
    /\ raw = NoRecord /\ decoded = NotDecoded /\ log = <<>>
    /\ results = NoResults /\ parsed = NotParsed /\ itemClass = NotLooked
ObjectNext ==
    \/ \E cls \in DOMAIN FilterClasses, query \in QueryArguments :
          ConstructFilter(cls, query, NoArg, NoArg)
    \/ \E cls \in DOMAIN FilterClasses, page \in PageArguments,
          itemsPerPage \in PageArguments :
          \E query \in {Missing, PagedQuery(cls)} :
              ConstructFilter(cls, query, page, itemsPerPage)
    \/ \E value \in AssignedValues : AssignQuery(value)
    \/ ValidateSecurity
    \/ SearchUnits
SpecObject == ObjectInit /\ [][ObjectNext]_vars

(***************************************************************************)
(* What the claims speak about: the mapping keys of an expression at any   *)
(* depth, and an expression with every scalar leaf replaced.               *)
(***************************************************************************)
RECURSIVE AllKeys(_)
AllKeys(e) ==
    IF e.t = "dict"
    THEN {e.items[i][1] : i \in 1..Len(e.items)}
         \cup UNION {AllKeys(e.items[i][2]) : i \in 1..Len(e.items)}
    ELSE IF e.t = "list" THEN UNION {AllKeys(e.items[i]) : i \in 1..Len(e.items)}
    ELSE {}

RECURSIVE ReplaceLeaves(_, _)
ReplaceLeaves(e, leaf) ==
    IF e.t = "dict"
    THEN DictOf([i \in 1..Len(e.items) |->
                    <<e.items[i][1], ReplaceLeaves(e.items[i][2], leaf)>>])
    ELSE IF e.t = "list"
    THEN ListOf([i \in 1..Len(e.items) |-> ReplaceLeaves(e.items[i], leaf)])
    ELSE leaf

\* the allow-list and the deny-list as the claims spell them
FilterAllowList ==
    { Str("$", n) : n \in {"eq", "ne", "gt", "gte", "lt", "lte", "in", "nin",
                            "regex", "exists", "and", "or", "nor", "not"} }
PipelineDenyList == { Str("$", "merge"), Str("$", "out") }

OperatorKeys(e) == {k \in AllKeys(e) : k.kt = "str" /\ k.lead = "$"}
NotAllowedKeys(e) == OperatorKeys(e) \ FilterAllowList
DeniedKeys(e) == AllKeys(e) \cap PipelineDenyList

\* {"$and": [{"mass": {"$gte": 50}}, {"$merge": {}}]}
FilterScenario ==
    DictOf(<< <<and, ListOf(<<MassGte50, DictOf(<< <<merge, DictOf(<<>>)>> >>)>>)>> >>)
\* [{"$match": {"mass": {"$gte": 50}}}, {"$out": "otherCollection"}]
PipelineScenario == ListOf(<<MatchStage, DictOf(<< <<out, otherCollection>> >>)>>)

\* C1: validate_filter rejects every expression that has, at any depth, a
\* '$'-prefixed mapping key outside the allow-list, with the ValueError that
\* names such a key; the scenario with '$merge' inside '$and' is rejected
\* naming '$merge'.
C1_FilterRejectsNotAllowed ==
    fresult # NotRun =>
        /\ NotAllowedKeys(expr) # {} =>
              /\ fresult.kind = "ValueError"
              /\ fresult.key \in NotAllowedKeys(expr)
        /\ expr = FilterScenario => fresult = FilterError(merge)

C1_Witness == expr = FilterScenario /\ fresult = FilterError(merge)

\* C2: validate_filter returns without raising for every expression whose
\* '$'-prefixed keys are all in the allow-list; keys without '$' never count.
C2_FilterAcceptsAllowed ==
    (fresult # NotRun /\ NotAllowedKeys(expr) = {}) => fresult = Accept

C2_Witness ==
    /\ fresult = Accept
    /\ {mass, and, gte} \subseteq AllKeys(expr)
    /\ steps = MaxDepth

\* C3: validate_pipeline rejects every pipeline that has '$merge' or '$out' as
\* a mapping key at any depth, with the ValueError that names such a key; the
\* scenario with an '$out' stage is rejected naming '$out'.
C3_PipelineRejectsDenied ==
    presult # NotRun =>
        /\ DeniedKeys(expr) # {} =>
              /\ presult.kind = "ValueError"
              /\ presult.key \in DeniedKeys(expr)
        /\ expr = PipelineScenario => presult = PipelineError(out)

C3_Witness == expr = PipelineScenario /\ presult = PipelineError(out)

\* C4: validate_pipeline accepts every pipeline with neither '$merge' nor
\* '$out' as a mapping key, whatever other '$'-prefixed keys it holds.
C4_PipelineAcceptsOthers ==
    (presult # NotRun /\ DeniedKeys(expr) = {}) => presult = Accept

C4_Witness ==
    /\ presult = Accept
    /\ match \in AllKeys(expr)
    /\ steps = MaxDepth

\* C5: the outcome of either validator is the outcome on the same expression
\* with every scalar leaf replaced by any other scalar, operator-shaped
\* strings included.
OtherScalars == {fifty, outText, Scalar(merge), Scalar(Str("$", "where")), otherCollection}

C5_OutcomeIgnoresScalars ==
    \A leaf \in OtherScalars :
        /\ fresult # NotRun => fresult = validate_filter(ReplaceLeaves(expr, leaf))
        /\ presult # NotRun => presult = validate_pipeline(ReplaceLeaves(expr, leaf))

C5_Witness ==
    /\ fresult.kind = "ValueError"
    /\ presult = Accept
    /\ expr.t = "dict"
    /\ \E i \in 1..Len(expr.items) :
          expr.items[i][2].t = "list" /\ outText \in {expr.items[i][2].items[j] : j \in 1..Len(expr.items[i][2].items)}

\* C6: on every expression the filter / pipeline fields can hold, mapping keys
\* of any scalar type included, each validator either returns or raises the
\* ValueError that names an operator key.
C6_TwoOutcomesOnly ==
    /\ fresult.kind \in {"notrun", "accept", "ValueError"}
    /\ presult.kind \in {"notrun", "accept", "ValueError"}

(***************************************************************************)
(* What the catalog claims speak about.                                    *)
(***************************************************************************)
\* the entries of the returned catalog that carry a given path
EntriesAt(path) ==
    {i \in 1..Len(catalog.fields) : catalog.fields[i].name = path}

\* the declaration of a name in a branch schema, if the branch declares it
Declares(b, n) == \E i \in 1..Len(schemas[b]) : schemas[b][i].name = n
DeclOf(b, n) == schemas[b][CHOOSE i \in 1..Len(schemas[b]) : schemas[b][i].name = n]

\* a declaration of a nested schema or of a sequence of a nested schema
IsSchemaType(t) ==
    \/ t.k = "model"
    \/ t.k = "List" /\ Len(t.args) > 0 /\ t.args[1].k = "model"
\* a leaf declaration: some alternative of the annotation is no schema type
IsLeafDecl(d) ==
    LET alts == IF d.annotation.k = "Union" THEN d.annotation.args ELSE <<d.annotation>>
    IN  \E i \in 1..Len(alts) : alts[i] # NoneT /\ ~IsSchemaType(alts[i])

\* the entry a catalog holds for a path, compared with a branch's declaration
TakenFrom(entry, d) ==
    /\ entry.type = get_type_name(d.annotation)
    /\ entry.description = Desc(d)
    /\ entry.operators = OperatorsFor(get_type_name(d.annotation))
    /\ entry.example = FirstExample(d)

BranchNames == {d.name : d \in BranchDecls}
TotalWarPath(n) == call.prefix \o <<"totalWar", n>>

\* C7: the list walk_model_fields returns holds no two entries with the same
\* name (field path), whatever the branches, nested schemas and sequences of
\* schemas redeclare.
C7_NoDuplicatePath ==
    catalog.kind = "catalog" =>
        \A i, j \in 1..Len(catalog.fields) :
            catalog.fields[i].name = catalog.fields[j].name => i = j

C7_Witness ==
    /\ catalog.kind = "catalog"
    /\ Declares("B1", "mass") /\ Declares("B2", "mass")
    /\ Declares("B1", "damage") /\ IsSchemaType(DeclOf("B1", "damage").annotation.args[1])
    /\ Declares("B2", "damage") /\ IsSchemaType(DeclOf("B2", "damage").annotation.args[1])
    /\ DeclOf("B1", "damage") # DeclOf("B2", "damage")

\* C8 as stated: when both branches of the union declare a field of the same
\* name, the catalog holds exactly one entry for the shared path and it is
\* taken from the branch that comes first in the union (B1).
C8_FirstBranchWins ==
    catalog.kind = "catalog" =>
        \A n \in BranchNames :
            (Declares("B1", n) /\ Declares("B2", n)) =>
                /\ Cardinality(EntriesAt(TotalWarPath(n))) = 1
                /\ \A i \in EntriesAt(TotalWarPath(n)) :
                      TakenFrom(catalog.fields[i], DeclOf("B1", n))

\* C8 as amended: in every catalog returned, when both branches declare a
\* field of the same name, the shared path has exactly one entry, taken from
\* the first branch in union order that declares the name as a leaf field;
\* when both declare it as a nested schema the path itself has no entry.
C8_FirstLeafBranchWins ==
    catalog.kind = "catalog" =>
        \A n \in BranchNames :
            (Declares("B1", n) /\ Declares("B2", n)) =>
                LET first == IF IsLeafDecl(DeclOf("B1", n)) THEN "B1" ELSE "B2"
                IN  IF IsLeafDecl(DeclOf(first, n))
                    THEN /\ Cardinality(EntriesAt(TotalWarPath(n))) = 1
                         /\ \A i \in EntriesAt(TotalWarPath(n)) :
                               TakenFrom(catalog.fields[i], DeclOf(first, n))
                    ELSE EntriesAt(TotalWarPath(n)) = {}

C8_Witness ==
    /\ catalog.kind = "catalog"
    /\ Declares("B1", "mass") /\ Declares("B2", "mass")
    /\ DeclOf("B1", "mass").annotation = OptionalT(FloatT)
    /\ DeclOf("B2", "mass").annotation = OptionalT(IntT)
    /\ \E i \in EntriesAt(TotalWarPath("mass")) :
          catalog.fields[i].type = "float" /\ catalog.fields[i].example = SomeStr("50.0")

(***************************************************************************)
(* Claims about tagged-variant decoding.                                   *)
(***************************************************************************)
\* the branch each recognised code stands for, as the documentation of the
\* record schemas states it
ExpectedBranch(model, enum, member) ==
    IF enum = "UnitType"
    THEN LET base == CASE member = "mech" -> "TotalWarBattleMech"
                       [] member = "vehicle" -> "TotalWarVehicle"
                       [] member = "infantry" -> "TotalWarInfantry"
                       [] member = "aerospace" -> "TotalWarAerospace"
                       [] member = "dropship" -> "TotalWarDropship"
         IN  IF model = "UnitDataExtended" THEN base \o "ExtendedData" ELSE base \o "Data"
    ELSE CASE member = "weapon" -> "WeaponItem" [] member = "other" -> "OtherItem"
           [] member = "armor" -> "ArmorItem" [] member = "cockpit" -> "CockpitItem"
           [] member = "structure" -> "StructureItem" [] member = "engine" -> "EngineItem"
           [] member = "conversion" -> "ConversionItem"
           [] member = "manipulator" -> "ManipulatorItem" [] member = "gyro" -> "GyroItem"
           [] member = "ammo" -> "AmmoItem" [] member = "heatsink" -> "HeatSinkItem"
           [] member = "bay" -> "BayItem" [] member = "myomer" -> "MyomerItem"
           [] member = "enhancement" -> "EnhancementItem"
           [] member = "weaponbay" -> "WeaponBayItem"

\* the raw discriminator is an integer that is the code of a member
RecognisedCode(record) ==
    /\ record.discriminator.j = "int"
    /\ IsEnumValue(RecordSchemas[record.model].enum, record.discriminator.text)
CodeMember(record) ==
    EnumMember(RecordSchemas[record.model].enum, record.discriminator.text).v

\* the raw discriminator is an integer that is the code of no member
UnrecognisedCode(record) ==
    /\ record.discriminator.j = "int"
    /\ ~IsEnumValue(RecordSchemas[record.model].enum, record.discriminator.text)

\* a payload whose fields can take the branch's declared types, and the float
\* its mass becomes
Coercible(payload) == payload.mass[1].j \in {"absent", "null", "int", "float"}
AsFloatText(massValue) ==
    CASE massValue.j = "int" -> massValue.text \o ".0"
      [] massValue.j = "float" -> massValue.text
      [] OTHER -> ""

\* C9: when the discriminator is a recognised code and the variant payload is
\* a mapping, decoding never yields a variant of another branch than the one
\* mapped to the code, and a payload whose fields can be coerced decodes to a
\* record whose variant is exactly that branch with the fields coerced to its
\* declared types (mass 50 becomes 50.0).
C9_MappedBranchCoerced ==
    (/\ decoded # NotDecoded
     /\ raw.model \in DOMAIN RecordSchemas
     /\ raw.variant.j = "dict"
     /\ RecognisedCode(raw)) =>
        LET schema == RecordSchemas[raw.model]
            branch == ExpectedBranch(raw.model, schema.enum, CodeMember(raw))
        IN  /\ decoded.kind = "record" =>
                 /\ decoded.variant = Instance(branch, AsFloatText(raw.variant.mass[1]))
                 /\ decoded.discriminator = Member(schema.enum, CodeMember(raw))
            /\ Coercible(raw.variant) => decoded.kind = "record"

\* UnitData with unitType 2 and totalWar {mass: 50} has decoded to a
\* TotalWarBattleMechData with mass 50.0
C9_Witness ==
    /\ raw = [model |-> "UnitData", discriminator |-> RawInt("2"),
              variant |-> RawMapping(RawInt("50"))]
    /\ decoded.kind = "record"
    /\ decoded.variant = Instance("TotalWarBattleMechData", "50.0")

\* C10: decoding a unit record whose unitType is an integer that is no
\* UnitType code and whose totalWar payload is a mapping fails with
\* 'Invalid unit type' on totalWar and not with 'Unit type id field does not
\* exist'.
C10_UnknownCodeInvalidUnitType ==
    (/\ decoded # NotDecoded
     /\ raw.model \in {"UnitData", "UnitDataExtended"}
     /\ raw.variant.j = "dict"
     /\ UnrecognisedCode(raw)) =>
        /\ decoded.kind = "ValidationError"
        /\ <<"totalWar", "Invalid unit type">> \in decoded.errors
        /\ <<"totalWar", "Unit type id field does not exist">> \notin decoded.errors

\* C11: decoding a record that carries a mapping as its variant payload and
\* no discriminator field fails with the missing-discriminator error of its
\* schema on the variant field, and produces no record.
C11_MissingDiscriminatorFails ==
    (/\ decoded # NotDecoded
     /\ raw.model \in DOMAIN RecordSchemas
     /\ raw.variant.j = "dict"
     /\ raw.discriminator = RawAbsent) =>
        LET schema == RecordSchemas[raw.model]
            message == IF raw.model = "EquipmentItem"
                       THEN "Equipment Item Type does not exist"
                       ELSE "Unit type id field does not exist"
        IN  /\ decoded.kind = "ValidationError"
            /\ decoded.errors = {<<schema.variant, message>>}
            /\ decoded.variant = PyNone

\* EquipmentItem with item {mass: 50} and no equipmentType has failed with
\* 'Equipment Item Type does not exist'
C11_Witness ==
    /\ raw = [model |-> "EquipmentItem", discriminator |-> RawAbsent,
              variant |-> RawMapping(RawInt("50"))]
    /\ decoded.kind = "ValidationError"
    /\ <<"item", "Equipment Item Type does not exist">> \in decoded.errors

\* the branch the sibling discriminator of a payload-keyed schema stands for,
\* "" when it stands for none
SiblingBranch(record) ==
    LET schema == PayloadKeyedSchemas[record.model]
        member == SelectedByPayload(schema, record.discriminator)
    IN  IF member = "" THEN "" ELSE schema.map[member]

\* C12: in every record schema with a variant field, a decoded record's
\* variant is of the branch that the sibling discriminator field of the
\* enclosing record stands for, whatever the payload holds under a key of its
\* own.
C12_BranchFromSibling ==
    (decoded.kind = "record" /\ decoded.variant # PyNone) =>
        IF raw.model \in DOMAIN RecordSchemas
        THEN /\ RecognisedCode(raw)
             /\ decoded.variant.py =
                    ExpectedBranch(raw.model, RecordSchemas[raw.model].enum, CodeMember(raw))
        ELSE decoded.variant.py = SiblingBranch(raw)

FixedLeaves ==
    {<<<<RootFields[i].name>>, RootFields[i]>> :
        i \in {k \in DOMAIN RootFields : IsLeafDecl(RootFields[k])}}
    \cup {<<<<"alphaStrike", SubFields[i].name>>, SubFields[i]>> : i \in DOMAIN SubFields}

\* the type category of a declared type, read off the declaration: the type
\* itself, or what Optional[...] wraps
Declared(annotation) ==
    IF annotation.k = "Union" /\ Len(annotation.args) = 2 /\ annotation.args[2] = NoneT
    THEN annotation.args[1] ELSE annotation
TypeCategory(annotation) ==
    LET t == Declared(annotation)
    IN  CASE t = IntT -> "integer"
          [] t = FloatT -> "float"
          [] t = StrT -> "string"
          [] t = BoolT -> "boolean"
          [] t = ListT(<<StrT>>) -> "sequence of strings"
          [] t = ListT(<<IntT>>) -> "sequence of integers"
          [] t = DictT(<<StrT, AnyT>>) -> "mapping from string to any"
          [] OTHER -> "none of the table"

\* the operator table as the documentation states it
TableOperators(typeCategory) ==
    CASE typeCategory \in {"integer", "float"} -> <<"$eq", "$gte", "$lte">>
      [] typeCategory = "string" -> <<"$eq", "$regex">>
      [] typeCategory = "sequence of strings" -> <<"$in", "$regex">>
      [] typeCategory = "sequence of integers" -> <<"$in">>
      [] typeCategory = "boolean" -> <<"$eq">>
      [] typeCategory = "mapping from string to any" ->
            <<"$eq", "$regex", "$gt", "$gte", "$lt", "$lte">>

\* C14: every catalog entry of a field whose declared type category is in the
\* operator table carries the table's operator list for that category, both
\* when the type is declared directly (List[int], Dict[str, Any]) and when it
\* is wrapped as optional.
C14_OperatorsByTypeCategory ==
    catalog.kind = "catalog" =>
        \A leaf \in FixedLeaves :
            TypeCategory(leaf[2].annotation) # "none of the table" =>
                \A i \in EntriesAt(call.prefix \o leaf[1]) :
                    catalog.fields[i].operators =
                        SomeOps(TableOperators(TypeCategory(leaf[2].annotation)))

\* the type names the operator table has an entry for
TableTypeNames ==
    {"integer", "float", "string", "array[string]", "array[integer]", "boolean",
     "dict[string, any]"}

\* the leaf declarations a union branch makes alone, with their paths
BranchLeaves ==
    {<<<<"totalWar", d.name>>, d>> :
        d \in {x \in BranchDecls :
                 /\ IsLeafDecl(x)
                 /\ \/ Declares("B1", x.name) /\ DeclOf("B1", x.name) = x /\ ~Declares("B2", x.name)
                    \/ Declares("B2", x.name) /\ DeclOf("B2", x.name) = x /\ ~Declares("B1", x.name)}}

\* C15: a leaf field whose type name has no entry in the operator table (an
\* enum, a sequence of floats, a mapping from string to boolean, a plain
\* dict) is in the catalog exactly once and carries no operators.
C15_NoOperatorsStillListed ==
    catalog.kind = "catalog" =>
        \A leaf \in FixedLeaves \cup BranchLeaves :
            LET entries == EntriesAt(call.prefix \o leaf[1])
            IN  (\A i \in entries : catalog.fields[i].type \notin TableTypeNames) =>
                    /\ Cardinality(entries) = 1
                    /\ \A i \in entries : catalog.fields[i].operators = NoneOps

\* the catalog lists the enum field unitType, the mapping from string to
\* boolean metadata, a sequence of floats and a branch's plain dict, each
\* once and without operators
C15_Witness ==
    /\ catalog.kind = "catalog"
    /\ \E i \in EntriesAt(call.prefix \o <<"unitType">>) :
          catalog.fields[i].type = "UnitType" /\ catalog.fields[i].operators = NoneOps
    /\ \E i \in EntriesAt(call.prefix \o <<"metadata">>) :
          catalog.fields[i].type = "dict[string, boolean]"
    /\ \E i \in EntriesAt(call.prefix \o <<"alphaStrike", "extreme">>) :
          catalog.fields[i].type = "array[float]"
    /\ \E i \in EntriesAt(call.prefix \o <<"totalWar", "damage">>) :
          catalog.fields[i].type = "dict" /\ catalog.fields[i].operators = NoneOps

\* C16: in the catalog of a call with no prefix and no category, the category
\* of every entry is the first segment of its path: its own name for a
\* top-level field, the name of the top-level field that introduced it for a
\* nested field at any depth.
C16_CategoryIsFirstSegment ==
    (catalog.kind = "catalog" /\ call.prefix = <<>> /\ call.category = NoneStr) =>
        \A i \in 1..Len(catalog.fields) :
            catalog.fields[i].category = SomeStr(catalog.fields[i].name[1])

\* a root-level call without category has returned entries of a top-level
\* field, of a field of a nested schema and of a field two schemas down a
\* union branch
C16_Witness ==
    /\ catalog.kind = "catalog" /\ call.prefix = <<>> /\ call.category = NoneStr
    /\ \E i, j, k \in 1..Len(catalog.fields) :
          /\ Len(catalog.fields[i].name) = 1
          /\ Len(catalog.fields[j].name) = 2 /\ catalog.fields[j].name[1] = "pilotData"
          /\ Len(catalog.fields[k].name) = 3 /\ catalog.fields[k].name[1] = "totalWar"
          /\ catalog.fields[k].category = SomeStr("totalWar")

\* C17: when an explicit category is passed to walk_model_fields, every entry
\* returned carries that category, for every prefix, the empty one included.
C17_ExplicitCategoryCarried ==
    (catalog.kind = "catalog" /\ call.category.some) =>
        \A i \in 1..Len(catalog.fields) : catalog.fields[i].category = call.category

\* C18: walk_model_fields has no failure mode: every call returns a catalog,
\* also for a schema that declares a bare mapping (transportSpace:
\* Optional[Dict]).
C18_WalkAlwaysReturns ==
    catalog # NotWalked => catalog.kind = "catalog"

(***************************************************************************)
(* Claims about NullGConnector.                                            *)
(***************************************************************************)
\* C19: when the response reports totalItems = 0, _parse_items raises
\* ValueError ('No results found ...') and no other exception.
C19_EmptyResultValueError ==
    (parsed # NotParsed /\ results.totalItems = 0) =>
        /\ parsed.kind = "ValueError"
        /\ parsed.msg = "No results found for " \o results.itemClass

\* the models the three modules define, by module, as their documentation
\* lists them
KnownModels ==
    [UnitData |-> "BattletechModels", ElementData |-> "HardwarModels",
     EquipmentItem |-> "EquipmentModels"]

\* C20: _get_item_class returns the model class when the string names a model
\* of BattletechModels, HardwarModels or EquipmentModels, the built-in dict
\* for 'dict', and raises ValueError for every other string.
C20_ClassOrValueError ==
    itemClass # NotLooked =>
        LET asked == itemClass.name
        IN  IF asked \in DOMAIN KnownModels
            THEN itemClass = ItemClass(KnownModels[asked], asked, "model")
            ELSE IF asked = "dict" THEN itemClass = ItemClass("builtins", "dict", "builtin")
            ELSE itemClass.kind = "ValueError"

(***************************************************************************)
(* What the claims about filter objects speak about.                       *)
(***************************************************************************)
\* C21: every example filter documented on SearchFilter.filter is accepted by
\* the constructor of SearchFilter and then by its validate_security.
C21_ExamplesAccepted ==
    \A i \in DOMAIN FilterExamples :
        /\ (request.op = "construct" /\ request.cls = "SearchFilter"
                /\ request.query = FilterExamples[i] /\ request.page = NoArg
                /\ request.itemsPerPage = NoArg)
              => (object.error = "" /\ object.query = FilterExamples[i])
        /\ (object.cls = "SearchFilter" /\ object.query = FilterExamples[i]
                /\ security # NotRun)
              => security = Accept

(***************************************************************************)
(* What the claims about declaration order and the branch maps speak about. *)
(***************************************************************************)
SchemaOf(model) ==
    IF model \in DOMAIN RecordSchemas THEN RecordSchemas[model]
    ELSE PayloadKeyedSchemas[model]

\* the record schemas the claims name
NamedSchemas == {"UnitData", "UnitDataExtended", "EquipmentItem", "UploadUnitData"}

\* C22: in every record schema with a variant field the discriminator field
\* is declared before the variant field, so whenever a record has been
\* decoded the discriminator was among the fields resolved before the
\* variant resolver ran: unitType before totalWar in UnitData and
\* UnitDataExtended, equipmentType before item in EquipmentItem, unitTypeId
\* before totalWar in UploadUnitData.
C22_DiscriminatorDeclaredFirst ==
    (decoded # NotDecoded /\ raw.model \in NamedSchemas) =>
        SchemaOf(raw.model).discriminator
            \in DeclaredBefore(raw.model, SchemaOf(raw.model).variant)

\* the members the claim lists
UnitTypeMembers == {"aerospace", "dropship", "mech", "infantry", "vehicle"}

\* the code the variant validator looks up: the discriminator field of the
\* record, or for UploadUnitData the payload's own entry
LookedUpCode(record) ==
    IF record.model = "UploadUnitData" THEN record.variant.tag[1] ELSE record.discriminator

\* C23: the branch maps of UnitData, UnitDataExtended, UploadUnitData and
\* EquipmentItem have a branch for every member of their enumeration (the
\* five UnitType members, the 15 EquipmentType members); decoding a mapping
\* payload under a recognised code never takes the KeyError path and yields,
\* if a record, the mapped branch; under an integer that is no code it
\* yields no record.
C23_BranchMapsTotal ==
    /\ DOMAIN EnumValues.UnitType = UnitTypeMembers
    /\ Cardinality(DOMAIN EnumValues.EquipmentType) = 15
    /\ \A model \in NamedSchemas :
          DOMAIN SchemaOf(model).map = DOMAIN EnumValues[SchemaOf(model).enum]
    /\ (decoded # NotDecoded /\ raw.model \in NamedSchemas /\ raw.variant.j = "dict") =>
          LET schema == SchemaOf(raw.model)
              code == LookedUpCode(raw)
          IN  /\ (code.j = "int" /\ IsEnumValue(schema.enum, code.text)) =>
                    /\ decoded.kind # "<KeyError>"
                    /\ <<schema.variant, schema.invalid>> \notin decoded.errors
                    /\ decoded.kind = "record" =>
                          decoded.variant.py
                              = schema.map[EnumMember(schema.enum, code.text).v]
              /\ (code.j = "int" /\ ~IsEnumValue(schema.enum, code.text)) =>
                    decoded.kind = "ValidationError"

\* EquipmentItem with equipmentType 14 has decoded to a WeaponBayItem
C23_Witness ==
    /\ raw.model = "EquipmentItem"
    /\ raw.discriminator = RawInt("14")
    /\ raw.variant.j = "dict"
    /\ decoded.kind = "record"
    /\ decoded.variant.py = "WeaponBayItem"

(***************************************************************************)
(* What the claims about union branches and sequences speak about.         *)
(***************************************************************************)
\* the nested schemas a declaration refers to, directly or as the element of
\* a sequence, in any alternative of its type
NestedSchemas(d) ==
    LET alts == IF d.annotation.k = "Union" THEN d.annotation.args ELSE <<d.annotation>>
    IN  {alts[i].name : i \in {k \in DOMAIN alts : alts[k].k = "model"}}
        \cup {alts[i].args[1].name :
                i \in {k \in DOMAIN alts : alts[k].k = "List" /\ IsSchemaType(alts[k])}}

\* the leaf paths of a schema, relative to it: the names of its leaf fields
\* and, below each field that refers to nested schemas, their leaf paths
RECURSIVE LeafPaths(_)
LeafPaths(model) ==
    UNION { (IF IsLeafDecl(schemas[model][i]) THEN {<<schemas[model][i].name>>} ELSE {})
            \cup {<<schemas[model][i].name>> \o p :
                     p \in UNION {LeafPaths(m) : m \in NestedSchemas(schemas[model][i])}} :
            i \in DOMAIN schemas[model] }

\* the paths of the catalog at or below a path
PathsUnder(path) ==
    {catalog.fields[i].name :
        i \in {k \in 1..Len(catalog.fields) :
                 /\ Len(catalog.fields[k].name) >= Len(path)
                 /\ SubSeq(catalog.fields[k].name, 1, Len(path)) = path}}

FieldNames == UNION {{schemas[m][i].name : i \in DOMAIN schemas[m]} : m \in Models}

\* C24: for the union-typed field totalWar, the catalog paths under the field
\* are exactly '<prefix>totalWar.' followed by the leaf paths of B1 and those
\* of B2, and every segment of every path below the call's prefix is a field
\* name: no branch name and no branch index.
C24_UnionBranchesSharePrefix ==
    catalog.kind = "catalog" =>
        /\ PathsUnder(call.prefix \o <<"totalWar">>)
              = {call.prefix \o <<"totalWar">> \o p :
                    p \in LeafPaths("B1") \cup LeafPaths("B2")}
        /\ \A i \in 1..Len(catalog.fields) :
              \A k \in (Len(call.prefix) + 1)..Len(catalog.fields[i].name) :
                  /\ catalog.fields[i].name[k] \in FieldNames
                  /\ catalog.fields[i].name[k] \notin Models \cup {"0", "1", "2"}

\* both branches declare fields, one shared and one nested, and the catalog
\* lists B1's mass, B2's crew and the fields below B1's damage under totalWar
C24_Witness ==
    /\ catalog.kind = "catalog"
    /\ Declares("B1", "mass") /\ Declares("B1", "damage")
    /\ IsSchemaType(DeclOf("B1", "damage").annotation.args[1])
    /\ Declares("B2", "crew") /\ IsLeafDecl(DeclOf("B2", "crew"))
    /\ Declares("B2", "mass")
    /\ EntriesAt(TotalWarPath("mass")) # {}
    /\ EntriesAt(TotalWarPath("crew")) # {}
    /\ EntriesAt(call.prefix \o <<"totalWar", "damage", "name">>) # {}

\* a declaration of a sequence: of a nested schema, or of other elements
IsSequenceOfSchema(d) ==
    Declared(d.annotation).k = "List" /\ IsSchemaType(Declared(d.annotation))
IsSequenceOfOthers(d) ==
    Declared(d.annotation).k = "List" /\ ~IsSchemaType(Declared(d.annotation))
ElementSchema(d) == Declared(d.annotation).args[1].name

OtherBranch(b) == IF b = "B1" THEN "B2" ELSE "B1"
SameNameIn(b, n) ==
    {schemas[b][k] : k \in {x \in DOMAIN schemas[b] : schemas[b][x].name = n}}

\* where sequences are declared: the path of the field, the declaration, and
\* the declarations of the same name in the other branches of a union
SequenceSites ==
    {[path |-> <<RootFields[i].name>>, decl |-> RootFields[i], others |-> {}] :
        i \in DOMAIN RootFields}
    \cup {[path |-> <<"alphaStrike", SubFields[i].name>>, decl |-> SubFields[i],
           others |-> {}] : i \in DOMAIN SubFields}
    \cup UNION {{[path |-> <<"totalWar", schemas[b][i].name>>, decl |-> schemas[b][i],
                  others |-> SameNameIn(OtherBranch(b), schemas[b][i].name)] :
                    i \in DOMAIN schemas[b]} : b \in {"B1", "B2"}}

\* C25: a field declared as a sequence of a nested schema, optional or not,
\* has the leaf fields of the element schema listed once each under
\* '<field>.<child>', the segment after the field being a field name and
\* never an index, and adds no entry for the field itself (the path of the
\* field has an entry only when another branch of the same union declares the
\* name as a leaf); a sequence of other elements is listed as one entry.
C25_SequencePaths ==
    catalog.kind = "catalog" =>
        \A site \in SequenceSites :
            LET path == call.prefix \o site.path
            IN  /\ IsSequenceOfSchema(site.decl) =>
                      /\ \A p \in LeafPaths(ElementSchema(site.decl)) :
                            Cardinality(EntriesAt(path \o p)) = 1
                      /\ (\A o \in site.others : ~IsLeafDecl(o)) => EntriesAt(path) = {}
                      /\ \A n \in PathsUnder(path) :
                            Len(n) > Len(path) => n[Len(path) + 1] \in FieldNames
                /\ IsSequenceOfOthers(site.decl) =>
                      /\ Cardinality(EntriesAt(path)) = 1
                      /\ (\A o \in site.others : IsLeafDecl(o)) => PathsUnder(path) = {path}

\* the catalog lists the fields of the optional sequence pilotData, of the
\* direct sequence equipmentList and of a branch's sequence crew under the
\* field's path, none of the three fields itself, and barcodes once
C25_Witness ==
    /\ catalog.kind = "catalog"
    /\ EntriesAt(call.prefix \o <<"pilotData", "name">>) # {}
    /\ EntriesAt(call.prefix \o <<"pilotData">>) = {}
    /\ EntriesAt(call.prefix \o <<"equipmentList", "doors">>) # {}
    /\ EntriesAt(call.prefix \o <<"equipmentList">>) = {}
    /\ Declares("B1", "crew") /\ IsSequenceOfSchema(DeclOf("B1", "crew"))
    /\ EntriesAt(call.prefix \o <<"totalWar", "crew", "name">>) # {}
    /\ EntriesAt(TotalWarPath("crew")) = {}
    /\ Cardinality(EntriesAt(call.prefix \o <<"barcodes">>)) = 1

(***************************************************************************)
(* What the claims about paging and about the time of validation speak     *)
(* about.                                                                  *)
(***************************************************************************)
\* the bounds declared on the paging fields, as the documentation states them
DeclaredBounds ==
    [ SearchFilter |-> [page |-> <<1, 1000>>, itemsPerPage |-> <<10, 100>>],
      PipelineFilter |-> [page |-> <<1, 1000>>, itemsPerPage |-> <<1, 100>>] ]
ClampedInto(n, bounds) ==
    IF n < bounds[1] THEN bounds[1] ELSE IF n > bounds[2] THEN bounds[2] ELSE n

\* C26: constructing a SearchFilter or a PipelineFilter with an integer as
\* page or itemsPerPage (and a query of the declared type, or none) succeeds,
\* and the stored value is the integer clamped into the declared bounds of
\* the field, so an integer inside the bounds is stored unchanged.
C26_PagingClamped ==
    (/\ request.op = "construct"
     /\ request.cls \in DOMAIN DeclaredBounds
     /\ request.query \in {Missing, PagedQuery(request.cls)}) =>
        /\ request.page.py = "int" =>
              /\ object.error = ""
              /\ object.page
                    = IntArg(ClampedInto(request.page.n, DeclaredBounds[request.cls].page))
        /\ request.itemsPerPage.py = "int" =>
              /\ object.error = ""
              /\ object.itemsPerPage
                    = IntArg(ClampedInto(request.itemsPerPage.n,
                                         DeclaredBounds[request.cls].itemsPerPage))

(***************************************************************************)
(* What the claim about traversal order speaks about.                      *)
(***************************************************************************)
\* the mapping keys of an expression in depth-first order: the keys of a
\* mapping in insertion order, each followed by the keys of the subtree
\* under it, and the elements of a list in order
RECURSIVE KeysInOrder(_), KeysOfItems(_, _, _)
KeysOfItems(items, i, isDict) ==
    IF i > Len(items) THEN <<>>
    ELSE (IF isDict THEN <<items[i][1]>> \o KeysInOrder(items[i][2])
          ELSE KeysInOrder(items[i]))
         \o KeysOfItems(items, i + 1, isDict)
KeysInOrder(e) ==
    IF e.t \in {"dict", "list"} THEN KeysOfItems(e.items, 1, e.t = "dict") ELSE <<>>

\* the position of the first key of a sequence that is in a set, 0 if none
FirstIn(keys, set) ==
    IF \E i \in DOMAIN keys : keys[i] \in set
    THEN CHOOSE i \in DOMAIN keys : keys[i] \in set /\ \A j \in 1..(i - 1) : keys[j] \notin set
    ELSE 0
NonStrKeys(e) == {k \in AllKeys(e) : k.kt # "str"}

\* C27: when an expression holds disallowed operator keys, each validator
\* reports the first of them in depth-first order (a key before the subtree
\* under it, a subtree before the next sibling key) and visits nothing after
\* it: keys after it, disallowed ones and keys that are no strings alike,
\* have no effect on the outcome.  Expressions in which a key that is no
\* string comes before the first disallowed key are C6's case.
C27_FirstDisallowedInOrder ==
    LET keys == KeysInOrder(expr)
        firstNonStr == FirstIn(keys, NonStrKeys(expr))
        firstNotAllowed == FirstIn(keys, NotAllowedKeys(expr))
        firstDenied == FirstIn(keys, DeniedKeys(expr))
    IN  /\ (/\ fresult # NotRun
            /\ firstNotAllowed > 0
            /\ firstNonStr = 0 \/ firstNotAllowed < firstNonStr)
              => fresult = FilterError(keys[firstNotAllowed])
        /\ (/\ presult # NotRun
            /\ firstDenied > 0
            /\ firstNonStr = 0 \/ firstDenied < firstNonStr)
              => presult = PipelineError(keys[firstDenied])

\* {"mass": {"$merge": {1: ...}}, "$out": 50}: '$merge' lies below the first
\* key, '$out' is the second key of the top mapping, an int key follows
\* '$merge'; both validators have reported '$merge'
C27_Witness ==
    /\ expr.t = "dict" /\ Len(expr.items) = 2
    /\ expr.items[1][1] = mass /\ expr.items[2][1] = out
    /\ expr.items[1][2].t = "dict" /\ Len(expr.items[1][2].items) = 1
    /\ expr.items[1][2].items[1][1] = merge
    /\ PyInt("1") \in AllKeys(expr.items[1][2])
    /\ fresult = FilterError(merge)
    /\ presult = PipelineError(merge)

\* the class whose validate_security runs the other copy of validate_filter
OtherFilterClass(cls) == IF cls = "SearchFilter" THEN "MongoQuery" ELSE "SearchFilter"

\* C28: on every filter an object holds, validate_security of SearchFilter
\* (ServerModels.validate_filter) and validate_security of MongoQuery
\* (ChatGPTModels.validate_filter) have the same outcome: both return, or
\* both raise the same error naming the same key.
C28_FilterValidatorsAgree ==
    (security # NotRun /\ object.cls \in {"SearchFilter", "MongoQuery"}) =>
        security = validate_security([object EXCEPT !.cls = OtherFilterClass(object.cls)])

\* a MongoQuery holding the documented '$options' example has been rejected
\* naming '$options', as a SearchFilter holding it is
C28_Witness ==
    /\ object.cls = "MongoQuery"
    /\ object.query = FilterExamples[4]
    /\ security = FilterError(Str("$", "options"))
    /\ validate_filter(object.query) = FilterError(Str("$", "options"))

\* the values of the declared type of each class's query field
OfDeclaredType(cls, value) ==
    CASE cls = "SearchFilter" -> value.t = "dict"
      [] cls = "PipelineFilter" ->
            /\ value.t = "list"
            /\ \A i \in 1..Len(value.items) :
                  /\ value.items[i].t = "dict"
                  /\ \A k \in 1..Len(value.items[i].items) :
                        value.items[i].items[k][1].kt = "str"
      [] OTHER -> FALSE
\* the operator keys validate_security of the class does not allow
DisallowedIn(cls, value) ==
    IF cls = "PipelineFilter" THEN DeniedKeys(value) ELSE NotAllowedKeys(value)

\* C29: a SearchFilter or PipelineFilter constructor given a value of the
\* declared type of its query field stores it, and an assignment to the
\* attribute stores any value, whatever operators the value holds; search_*
\* sends what the object holds whether or not validate_security has run;
\* validate_security on an object holding a disallowed operator raises, and
\* when every key is a string it raises the ValueError naming such a key.
C29_ValidationOnlyInValidateSecurity ==
    request.cls \in {"SearchFilter", "PipelineFilter"} =>
        /\ (/\ request.op = "construct"
            /\ OfDeclaredType(request.cls, request.query)
            /\ request.page = NoArg /\ request.itemsPerPage = NoArg)
              => (object.error = "" /\ object.query = request.query)
        /\ request.op = "assign" => (object.error = "" /\ object.query = request.query)
        /\ sent # NotSent => sent.query = object.query
        /\ (security # NotRun /\ DisallowedIn(object.cls, object.query) # {}) =>
              /\ security.kind \in {"ValueError", "AttributeError"}
              /\ NonStrKeys(object.query) = {} =>
                    /\ security.kind = "ValueError"
                    /\ security.key \in DisallowedIn(object.cls, object.query)

\* a SearchFilter constructed with {"mass": {"$merge": {}}} holds it, search_*
\* has sent it as it is, and a call of validate_security has rejected it
C29_Witness ==
    /\ request.op = "construct" /\ request.cls = "SearchFilter"
    /\ request.query = DictOf(<< <<mass, MergeFilter>> >>)
    /\ object.query = request.query
    /\ sent.kind = "dict" /\ sent.query = object.query
    /\ security = FilterError(merge)

\* C30: a SearchFilter constructed without a filter argument holds an empty
\* mapping as its filter, and validate_security accepts it.
C30_DefaultFilterEmptyMapping ==
    (/\ request.op = "construct" /\ request.cls = "SearchFilter"
     /\ request.query = Missing /\ object.error = "") =>
        /\ object.query = DictOf(<<>>)
        /\ security # NotRun => security = Accept

=============================================================================
